---------------------------- MODULE Spec2Model ----------------------------
(***************************************************************************)
(* Model of the allowance-wallet policy store and transaction validator:   *)
(*   api/lib/policyStorage.ts     the two-tier store and validateTransaction*)
(*   api/child/sign-transaction.ts the signing endpoint                     *)
(*   api/child/create-wallet.ts    buildParaPolicy                          *)
(* Every hosting process owns one in-memory policyCache; all processes     *)
(* share the durable file STORAGE_FILE, modelled by the variable disk.     *)
(***************************************************************************)
EXTENDS Integers, Sequences, FiniteSets, TLC

VARIABLES
    disk,           \* parsed content of STORAGE_FILE: key -> WalletPolicyRecord
    policyCache,    \* per process: the module-level Map policyCache
    now,            \* the value Date.now() returns
    paraSecretKey,  \* whether process.env.PARA_SECRET_KEY is set
    stripeSecretKey, \* whether process.env.STRIPE_SECRET_KEY is set
    ops,            \* number of steps taken (bounds the exploration)
    written,        \* history: key -> the record of the latest put of that key,
                    \* dropped when a delete of the key returns true
    last,           \* the call in flight, its inputs and what it returns
    pending         \* per process: the storeWalletPolicy call that has read the
                    \* file and not yet written it, or the one that last wrote

vars == <<disk, policyCache, now, paraSecretKey, stripeSecretKey, ops, written, last,
          pending>>

---------------------------------------------------------------------------
(* Bounds of the exploration                                               *)

MaxOps == 3
MaxClock == 1
MaxUsd == 1
MaxConds == 2
MaxSteps == 4

---------------------------------------------------------------------------
(* Addresses.  A string is kept run-length encoded: a sequence of runs     *)
(* [ch, n], n copies of the character ch, no two adjacent runs of the same *)
(* character.  "0xaaaa" is <<[ch "0", n 1], [ch "x", n 1], [ch "a", n 4]>>.*)
(* The model's addresses are "0x" followed by one run.                     *)

ADDR_HEX_LEN == 40

HexChars == {"0", "1", "2", "3", "4", "5", "6", "7", "8", "9",
             "a", "b", "c", "d", "e", "f", "A", "B", "C", "D", "E", "F"}

Run(c, k) == [ch |-> c, n |-> k]

\* String.prototype.toLowerCase on one character of the model's alphabet
ToLowerChar(c) ==
    CASE c = "A" -> "a"
      [] c = "B" -> "b"
      [] c = "C" -> "c"
      [] c = "D" -> "d"
      [] c = "E" -> "e"
      [] c = "F" -> "f"
      [] c = "G" -> "g"
      [] c = "X" -> "x"
      [] OTHER -> c

\* a normalizeAddress that leaves the letter case as it is
normalizeAddress_asGiven(address) == address

\* address.toLowerCase(), run by run.  No string of the model has two
\* adjacent runs that differ only in case, so the result needs no re-joining.
normalizeAddress(address) ==
    [i \in DOMAIN address |-> Run(ToLowerChar(address[i].ch), address[i].n)]

RECURSIVE StrLen(_)
StrLen(s) == IF s = << >> THEN 0 ELSE s[1].n + StrLen(Tail(s))

\* /^0x[a-fA-F0-9]{40}$/
MatchesAddressFormat(a) ==
    /\ StrLen(a) = 2 + ADDR_HEX_LEN
    /\ Len(a) >= 3
    /\ a[1] = Run("0", 1)
    /\ a[2] = Run("x", 1)
    /\ \A i \in 3..Len(a) : a[i].ch \in HexChars

\* "0x" followed by forty copies of the character c
Addr(c) == <<Run("0", 1), Run("x", 1), Run(c, ADDR_HEX_LEN)>>
NoAddress == << >>

\* child wallet addresses: two case variants of one address, and a second
\* address; writers use the first set, readers and deleters the second
WalletsWritten == {Addr("A"), Addr("b")}
WalletsRead == {Addr("a"), Addr("b")}
\* parent addresses: one parent in upper case (stored in lower case), and a
\* second parent
ParentsWriting == {Addr("C"), Addr("d")}
ParentsDeleting == {Addr("C"), Addr("d")}
ParentsListing == {Addr("C"), Addr("d")}

Procs == {"p1", "p2"}

---------------------------------------------------------------------------
(* Maps (JavaScript Map / the JSON object of the file)                     *)

EmptyMap == [k \in {} |-> 0]
Has(m, k) == k \in DOMAIN m
Size(m) == Cardinality(DOMAIN m)
\* a set that drops every other entry
MapSet_alone(m, k, v) == [x \in {k} |-> v]
MapSet(m, k, v) == [x \in (DOMAIN m) \cup {k} |-> IF x = k THEN v ELSE m[x]]
MapDelete(m, k) == [x \in (DOMAIN m) \ {k} |-> m[x]]

---------------------------------------------------------------------------
(* Policies.  A PolicyCondition's value is a string[], a number or a       *)
(* string according to its type; the three are kept in separate fields.    *)

BASE_CHAIN_ID == "8453"
ALL_CHAINS == <<"8453", "1", "137", "42161", "10">>

Includes(seq, x) == \E i \in DOMAIN seq : seq[i] = x

ChainCond(chs) ==
    [type |-> "chain", operator |-> "in", chains |-> chs, num |-> 0, action |-> ""]
ValueCond(n) ==
    [type |-> "value", operator |-> "lessThanOrEqual", chains |-> << >>, num |-> n, action |-> ""]
ActionCond(a) ==
    [type |-> "action", operator |-> "notEquals", chains |-> << >>, num |-> 0, action |-> a]

NoPolicy == [name |-> "", allowedChains |-> << >>, globalConditions |-> << >>]

\* JavaScript numbers are kept as integers; three values that are no finite
\* number stand beyond the range of every amount the model uses
Infinity == 1073741824
NegativeInfinity == -1073741824
NaN == -1073741825

\* a > b of two JavaScript numbers: false whenever one of them is NaN
JsGreater(a, b) == a # NaN /\ b # NaN /\ a > b

\* buildParaPolicy that appends no blocked-action condition
buildParaPolicy_noBlock(options) ==
    LET allowedChains == IF options.restrictToBase THEN <<BASE_CHAIN_ID>> ELSE ALL_CHAINS
        chainPart == <<ChainCond(allowedChains)>>
        valuePart == IF options.hasMaxUsd /\ JsGreater(options.maxUsd, 0)
                     THEN <<ValueCond(options.maxUsd)>> ELSE << >>
    IN  [name |-> IF options.name = "" THEN "Child Allowance Policy" ELSE options.name,
         allowedChains |-> allowedChains,
         globalConditions |-> chainPart \o valuePart]

\* buildParaPolicy(options); options.maxUsd undefined is hasMaxUsd = FALSE
buildParaPolicy(options) ==
    LET allowedChains == IF options.restrictToBase THEN <<BASE_CHAIN_ID>> ELSE ALL_CHAINS
        chainPart == <<ChainCond(allowedChains)>>
        valuePart == IF options.hasMaxUsd /\ JsGreater(options.maxUsd, 0)
                     THEN <<ValueCond(options.maxUsd)>> ELSE << >>
        actionPart == <<ActionCond("deploy")>>
    IN  [name |-> IF options.name = "" THEN "Child Allowance Policy" ELSE options.name,
         allowedChains |-> allowedChains,
         globalConditions |-> chainPart \o valuePart \o actionPart]

BuilderOptions ==
    [restrictToBase : BOOLEAN, hasMaxUsd : {TRUE}, maxUsd : 0..MaxUsd, name : {""}]
      \cup [restrictToBase : BOOLEAN, hasMaxUsd : {FALSE}, maxUsd : {0}, name : {""}]

BuilderPolicies == {buildParaPolicy(o) : o \in BuilderOptions}

\* what a caller can pass for maxUsd: nothing, a finite number of either
\* sign, NaN, or an infinity (JSON.parse reads 1e999 as Infinity)
NoOptions == [restrictToBase |-> FALSE, hasMaxUsd |-> FALSE, maxUsd |-> 0, name |-> ""]
MaxUsdInputs == (-2..(MaxUsd + 1)) \cup {NaN, Infinity, NegativeInfinity}
AnyOptions ==
    [restrictToBase : BOOLEAN, hasMaxUsd : {TRUE}, maxUsd : MaxUsdInputs,
     name : {"", "custom"}]
      \cup [restrictToBase : BOOLEAN, hasMaxUsd : {FALSE}, maxUsd : {0}, name : {"", "custom"}]

\* the conditions hand-written policies are composed of
ConditionUniverse ==
    {ChainCond(<<BASE_CHAIN_ID>>), ChainCond(ALL_CHAINS),
     ActionCond("deploy"), ActionCond("transfer")}
      \cup {ValueCond(n) : n \in 1..MaxUsd}

SeqsUpTo(S, n) == UNION {[1..k -> S] : k \in 0..n}

\* every policy of at most MaxConds conditions, in every order
AnyPolicies ==
    {[name |-> "custom", allowedChains |-> <<BASE_CHAIN_ID>>, globalConditions |-> cs] :
        cs \in SeqsUpTo(ConditionUniverse, MaxConds)}

AllPolicies == AnyPolicies \cup BuilderPolicies

\* the policies the multi-process specification stores
StorePolicies ==
    {buildParaPolicy([restrictToBase |-> TRUE, hasMaxUsd |-> TRUE, maxUsd |-> 1, name |-> ""]),
     buildParaPolicy([restrictToBase |-> FALSE, hasMaxUsd |-> FALSE, maxUsd |-> 0, name |-> ""])}

---------------------------------------------------------------------------
(* Transactions                                                            *)

TransactionTypes == {"transfer", "sign", "contractCall", "deploy"}
\* "56" is on neither allow-list
ChainInputs == {"8453", "1", "56"}

NoTransaction == [chainId |-> "", hasValueUsd |-> FALSE, valueUsd |-> 0, transactionType |-> ""]

Transactions ==
    [chainId : ChainInputs, hasValueUsd : {TRUE}, valueUsd : 0..(MaxUsd + 1),
     transactionType : TransactionTypes]
      \cup [chainId : ChainInputs, hasValueUsd : {FALSE}, valueUsd : {0},
            transactionType : TransactionTypes]

---------------------------------------------------------------------------
(* policyStorage.ts: the two tiers                                         *)

NoRecord ==
    [walletAddress |-> NoAddress, parentAddress |-> NoAddress, policy |-> NoPolicy,
     createdAt |-> 0, updatedAt |-> 0]

\* a load that returns the file's records although the read failed
loadPoliciesFromDisk_anyway(d, readOk) == d

\* loadPoliciesFromDisk: the parsed file, or an empty Map when the file is
\* missing, unreadable or unparsable (readOk = FALSE: the catch branch)
loadPoliciesFromDisk(d, readOk) == IF readOk THEN d ELSE EmptyMap

\* what fs.writeFileSync does to the file: it writes the new content; it
\* throws before it touches the file; or it throws after it has opened and
\* so truncated the file
WriteOutcomes == {"written", "refused", "truncated"}

\* savePoliciesToDisk that never reaches the file
savePoliciesToDisk_never(d, policies, write) == d

\* savePoliciesToDisk: the file's new content; the error of a failed write
\* is caught.  A file cut short does not parse, and loadPoliciesFromDisk
\* returns an empty Map for it as for a file that holds no record.
savePoliciesToDisk(d, policies, write) ==
    CASE write = "written" -> policies
      [] write = "refused" -> d
      [] write = "truncated" -> EmptyMap

\* getPolicyStore that reads the file on every call
getPolicyStore_eager(cache, d, readOk) == loadPoliciesFromDisk(d, readOk)

\* getPolicyStore that never reads the file
getPolicyStore_noLoad(cache, d, readOk) == cache

\* getPolicyStore: the cache after the call (hydrated when it was empty)
getPolicyStore(cache, d, readOk) ==
    IF Size(cache) = 0 THEN loadPoliciesFromDisk(d, readOk) ELSE cache

\* getWalletPolicy on the store getPolicyStore returned
getWalletPolicy(store, walletAddress) ==
    LET normalizedAddress == normalizeAddress(walletAddress)
    IN  IF Has(store, normalizedAddress)
        THEN [found |-> TRUE, record |-> store[normalizedAddress]]
        ELSE [found |-> FALSE, record |-> NoRecord]

\* listPoliciesByParent that compares with the argument as given
listPoliciesByParent_asGiven(store, parentAddress) ==
    {store[k] : k \in {x \in DOMAIN store : store[x].parentAddress = parentAddress}}

\* listPoliciesByParent on the store getPolicyStore returned: the records it
\* pushes.  No two records of a store are equal, so the set has as many
\* elements as the array.
listPoliciesByParent(store, parentAddress) ==
    LET normalizedParent == normalizeAddress(parentAddress)
    IN  {store[k] : k \in {x \in DOMAIN store : store[x].parentAddress = normalizedParent}}

\* getAllPolicies on the store getPolicyStore returned
getAllPolicies(store) == {store[k] : k \in DOMAIN store}

---------------------------------------------------------------------------
(* policyStorage.ts: validateTransaction                                   *)

\* the loop body without its chain check
CheckCondition_noChain(condition, transaction) ==
    IF /\ condition.type = "action" /\ condition.operator = "notEquals"
       /\ transaction.transactionType = condition.action
    THEN "action_restriction"
    ELSE IF /\ condition.type = "value" /\ condition.operator = "lessThanOrEqual"
            /\ transaction.hasValueUsd /\ transaction.valueUsd > condition.num
    THEN "value_limit"
    ELSE ""

\* the loop body without its action check
CheckCondition_noAction(condition, transaction) ==
    IF /\ condition.type = "chain" /\ condition.operator = "in"
       /\ ~Includes(condition.chains, transaction.chainId)
    THEN "chain_restriction"
    ELSE IF /\ condition.type = "value" /\ condition.operator = "lessThanOrEqual"
            /\ transaction.hasValueUsd /\ transaction.valueUsd > condition.num
    THEN "value_limit"
    ELSE ""

\* the loop body comparing the value with >= instead of >
CheckCondition_atLeast(condition, transaction) ==
    IF /\ condition.type = "chain" /\ condition.operator = "in"
       /\ ~Includes(condition.chains, transaction.chainId)
    THEN "chain_restriction"
    ELSE IF /\ condition.type = "action" /\ condition.operator = "notEquals"
            /\ transaction.transactionType = condition.action
    THEN "action_restriction"
    ELSE IF /\ condition.type = "value" /\ condition.operator = "lessThanOrEqual"
            /\ transaction.hasValueUsd /\ transaction.valueUsd >= condition.num
    THEN "value_limit"
    ELSE ""

\* the loop body taking a request without valueUsd as one above the limit
CheckCondition_absentExceeds(condition, transaction) ==
    IF /\ condition.type = "chain" /\ condition.operator = "in"
       /\ ~Includes(condition.chains, transaction.chainId)
    THEN "chain_restriction"
    ELSE IF /\ condition.type = "action" /\ condition.operator = "notEquals"
            /\ transaction.transactionType = condition.action
    THEN "action_restriction"
    ELSE IF /\ condition.type = "value" /\ condition.operator = "lessThanOrEqual"
            /\ (~transaction.hasValueUsd \/ transaction.valueUsd > condition.num)
    THEN "value_limit"
    ELSE ""

\* one pass of the loop body: the rejection code, or "" when the condition
\* lets the transaction through
CheckCondition(condition, transaction) ==
    IF /\ condition.type = "chain" /\ condition.operator = "in"
       /\ ~Includes(condition.chains, transaction.chainId)
    THEN "chain_restriction"
    ELSE IF /\ condition.type = "action" /\ condition.operator = "notEquals"
            /\ transaction.transactionType = condition.action
    THEN "action_restriction"
    ELSE IF /\ condition.type = "value" /\ condition.operator = "lessThanOrEqual"
            /\ transaction.hasValueUsd /\ transaction.valueUsd > condition.num
    THEN "value_limit"
    ELSE ""

\* a loop that looks for a chain failure in the whole list first, then for
\* an action failure, then for a value failure
CheckConditionsFrom_byKind(conditions, i, transaction) ==
    LET codes == {CheckCondition(conditions[j], transaction) : j \in i..Len(conditions)}
    IN  IF "chain_restriction" \in codes THEN "chain_restriction"
        ELSE IF "action_restriction" \in codes THEN "action_restriction"
        ELSE IF "value_limit" \in codes THEN "value_limit"
        ELSE ""

\* a loop that returns after its first pass
CheckConditionsFrom_firstOnly(conditions, i, transaction) ==
    IF i > Len(conditions) THEN ""
    ELSE CheckCondition(conditions[i], transaction)

\* for (const condition of policy.globalConditions): return on first failure
RECURSIVE CheckConditionsFrom(_, _, _)
CheckConditionsFrom(conditions, i, transaction) ==
    IF i > Len(conditions) THEN ""
    ELSE LET code == CheckCondition(conditions[i], transaction)
         IN  IF code # "" THEN code
             ELSE CheckConditionsFrom(conditions, i + 1, transaction)

\* validateTransaction without the "if (!record)" return
validateTransaction_noRecordCheck(store, walletAddress, transaction) ==
    LET got == getWalletPolicy(store, walletAddress)
        code == CheckConditionsFrom(got.record.policy.globalConditions, 1, transaction)
    IN  IF code # ""
        THEN [allowed |-> FALSE, condition |-> code, policy |-> got.record.policy]
        ELSE [allowed |-> TRUE, condition |-> "", policy |-> got.record.policy]

validateTransaction(store, walletAddress, transaction) ==
    LET got == getWalletPolicy(store, walletAddress)
        code == CheckConditionsFrom(got.record.policy.globalConditions, 1, transaction)
    IN  IF ~got.found
        THEN [allowed |-> FALSE, condition |-> "no_policy", policy |-> NoPolicy]
        ELSE IF code # ""
        THEN [allowed |-> FALSE, condition |-> code, policy |-> got.record.policy]
        ELSE [allowed |-> TRUE, condition |-> "", policy |-> got.record.policy]

---------------------------------------------------------------------------
(* The call in flight: its inputs and what it returns.  last = NoLast       *)
(* when no call is in flight.                                              *)

NoLast ==
    [op |-> "idle", proc |-> "", walletAddress |-> NoAddress, parentAddress |-> NoAddress,
     policy |-> NoPolicy, tx |-> NoTransaction,
     hadRecord |-> FALSE, prior |-> NoRecord,   \* the store's entry before the call
     found |-> FALSE, record |-> NoRecord,      \* what getWalletPolicy returned
     allowed |-> FALSE, condition |-> "",
     returned |-> FALSE,                        \* deleteWalletPolicy's result
     wrote |-> FALSE,                           \* the file holds the new content
     loaded |-> FALSE,                          \* the cache was empty: the file was read
     readOk |-> TRUE,                           \* ... and that read succeeded
     method |-> "", status |-> 0, json |-> FALSE,
     paraEnforced |-> FALSE, rejectedBy |-> "",
     success |-> FALSE, error |-> "",           \* create-wallet's response
     paymentToken |-> "undefined", devMode |-> FALSE,  \* ... and its request
     stage |-> "",                              \* where the handler answered
     hasBody |-> FALSE,                         \* req.body is an object
     stages |-> << >>,                          \* the handler's stages, in order
     results |-> {},                            \* what listPoliciesByParent returned
     failure |-> "",                            \* what was thrown into the outer catch
     allPassed |-> FALSE,                       \* wallet-flow's summary
     options |-> NoOptions,                     \* what buildParaPolicy was given
     paid |-> FALSE,                            \* verifyPayment ran and succeeded
     provided |-> NoAddress,                    \* wallet.address of the provider
     stored |-> FALSE]                          \* storeWalletPolicy ran to its end

\* no storeWalletPolicy call of the process has read the file yet
NoPending ==
    [phase |-> "idle", key |-> NoAddress, record |-> NoRecord,
     wasEmpty |-> FALSE,     \* the cache was empty: the file was read
     seen |-> EmptyMap,      \* what getPolicyStore returned
     loadedAt |-> 0, savedAt |-> 0,   \* the steps at which it read and wrote
     write |-> ""]           \* what writeFileSync did

---------------------------------------------------------------------------
(* Store operations, run by process p                                      *)

Idle == last = NoLast

\* the call in flight returns to its caller
Return ==
    /\ last # NoLast
    /\ last' = NoLast
    /\ UNCHANGED <<disk, policyCache, now, paraSecretKey, stripeSecretKey, ops, written, pending>>

\* a disk read happens only when the cache is empty, and its failure shows
\* only when the file holds something
ReadOutcomes(p) ==
    IF Size(policyCache[p]) = 0 /\ disk # EmptyMap THEN BOOLEAN ELSE {TRUE}

\* storeWalletPolicy keeping the parent address as it was given
storeWalletPolicy_rawParent(p, walletAddress, parentAddress, policy, readOk, write) ==
    LET normalizedAddress == normalizeAddress(walletAddress)
        record == [walletAddress |-> normalizedAddress,
                   parentAddress |-> parentAddress,
                   policy |-> policy, createdAt |-> now, updatedAt |-> now]
        before == getPolicyStore(policyCache[p], disk, readOk)
        store == MapSet(before, normalizedAddress, record)
    IN  /\ Idle
        /\ policyCache' = [policyCache EXCEPT ![p] = store]
        /\ disk' = savePoliciesToDisk(disk, store, write)
        /\ last' = [NoLast EXCEPT !.op = "put", !.proc = p,
                       !.walletAddress = walletAddress, !.parentAddress = parentAddress,
                       !.policy = policy,
                       !.hadRecord = Has(before, normalizedAddress),
                       !.prior = IF Has(before, normalizedAddress)
                                 THEN before[normalizedAddress] ELSE NoRecord,
                       !.wrote = write = "written",
                       !.loaded = Size(policyCache[p]) = 0, !.readOk = readOk]
        /\ written' = MapSet(written, normalizedAddress, record)
        /\ UNCHANGED <<now, paraSecretKey, stripeSecretKey, pending>>

storeWalletPolicy(p, walletAddress, parentAddress, policy, readOk, write) ==
    LET normalizedAddress == normalizeAddress(walletAddress)
        record == [walletAddress |-> normalizedAddress,
                   parentAddress |-> normalizeAddress(parentAddress),
                   policy |-> policy, createdAt |-> now, updatedAt |-> now]
        before == getPolicyStore(policyCache[p], disk, readOk)
        store == MapSet(before, normalizedAddress, record)
    IN  /\ Idle
        /\ policyCache' = [policyCache EXCEPT ![p] = store]
        /\ disk' = savePoliciesToDisk(disk, store, write)
        /\ last' = [NoLast EXCEPT !.op = "put", !.proc = p,
                       !.walletAddress = walletAddress, !.parentAddress = parentAddress,
                       !.policy = policy,
                       !.hadRecord = Has(before, normalizedAddress),
                       !.prior = IF Has(before, normalizedAddress)
                                 THEN before[normalizedAddress] ELSE NoRecord,
                       !.wrote = write = "written",
                       !.loaded = Size(policyCache[p]) = 0, !.readOk = readOk]
        /\ written' = MapSet(written, normalizedAddress, record)
        /\ UNCHANGED <<now, paraSecretKey, stripeSecretKey, pending>>

GetWalletPolicy(p, walletAddress, readOk) ==
    LET store == getPolicyStore(policyCache[p], disk, readOk)
        got == getWalletPolicy(store, walletAddress)
    IN  /\ Idle
        /\ policyCache' = [policyCache EXCEPT ![p] = store]
        /\ last' = [NoLast EXCEPT !.op = "get", !.proc = p,
                       !.walletAddress = walletAddress,
                       !.found = got.found, !.record = got.record,
                       !.loaded = Size(policyCache[p]) = 0, !.readOk = readOk]
        /\ UNCHANGED <<disk, now, paraSecretKey, stripeSecretKey, written, pending>>

ListPoliciesByParent(p, parentAddress, readOk) ==
    LET store == getPolicyStore(policyCache[p], disk, readOk)
    IN  /\ Idle
        /\ policyCache' = [policyCache EXCEPT ![p] = store]
        /\ last' = [NoLast EXCEPT !.op = "list", !.proc = p,
                       !.parentAddress = parentAddress,
                       !.results = listPoliciesByParent(store, parentAddress),
                       !.loaded = Size(policyCache[p]) = 0, !.readOk = readOk]
        /\ UNCHANGED <<disk, now, paraSecretKey, stripeSecretKey, written, pending>>

GetAllPolicies(p, readOk) ==
    LET store == getPolicyStore(policyCache[p], disk, readOk)
    IN  /\ Idle
        /\ policyCache' = [policyCache EXCEPT ![p] = store]
        /\ last' = [NoLast EXCEPT !.op = "listAll", !.proc = p,
                       !.results = getAllPolicies(store),
                       !.loaded = Size(policyCache[p]) = 0, !.readOk = readOk]
        /\ UNCHANGED <<disk, now, paraSecretKey, stripeSecretKey, written, pending>>

ValidateTransaction(p, walletAddress, transaction, readOk) ==
    LET store == getPolicyStore(policyCache[p], disk, readOk)
        got == getWalletPolicy(store, walletAddress)
        res == validateTransaction(store, walletAddress, transaction)
    IN  /\ Idle
        /\ policyCache' = [policyCache EXCEPT ![p] = store]
        /\ last' = [NoLast EXCEPT !.op = "validate", !.proc = p,
                       !.walletAddress = walletAddress, !.tx = transaction,
                       !.found = got.found, !.record = got.record,
                       !.policy = res.policy,
                       !.allowed = res.allowed, !.condition = res.condition,
                       !.loaded = Size(policyCache[p]) = 0, !.readOk = readOk]
        /\ UNCHANGED <<disk, now, paraSecretKey, stripeSecretKey, written, pending>>

\* deleteWalletPolicy without the comparison of the parent addresses
deleteWalletPolicy_noOwnerCheck(p, walletAddress, parentAddress, readOk, write) ==
    LET normalizedAddress == normalizeAddress(walletAddress)
        before == getPolicyStore(policyCache[p], disk, readOk)
        owns == Has(before, normalizedAddress)
        store == IF owns THEN MapDelete(before, normalizedAddress) ELSE before
    IN  /\ Idle
        /\ policyCache' = [policyCache EXCEPT ![p] = store]
        /\ disk' = IF owns THEN savePoliciesToDisk(disk, store, write) ELSE disk
        /\ last' = [NoLast EXCEPT !.op = "delete", !.proc = p,
                       !.walletAddress = walletAddress, !.parentAddress = parentAddress,
                       !.hadRecord = Has(before, normalizedAddress),
                       !.prior = IF Has(before, normalizedAddress)
                                 THEN before[normalizedAddress] ELSE NoRecord,
                       !.returned = owns,
                       !.wrote = owns /\ write = "written",
                       !.loaded = Size(policyCache[p]) = 0, !.readOk = readOk]
        /\ written' = IF owns THEN MapDelete(written, normalizedAddress) ELSE written
        /\ UNCHANGED <<now, paraSecretKey, stripeSecretKey, pending>>

\* deleteWalletPolicy that rewrites the file whatever it returns
deleteWalletPolicy_alwaysSaves(p, walletAddress, parentAddress, readOk, write) ==
    LET normalizedAddress == normalizeAddress(walletAddress)
        before == getPolicyStore(policyCache[p], disk, readOk)
        owns == /\ Has(before, normalizedAddress)
                /\ before[normalizedAddress].parentAddress = normalizeAddress(parentAddress)
        store == IF owns THEN MapDelete(before, normalizedAddress) ELSE before
    IN  /\ Idle
        /\ policyCache' = [policyCache EXCEPT ![p] = store]
        /\ disk' = savePoliciesToDisk(disk, store, write)
        /\ last' = [NoLast EXCEPT !.op = "delete", !.proc = p,
                       !.walletAddress = walletAddress, !.parentAddress = parentAddress,
                       !.hadRecord = Has(before, normalizedAddress),
                       !.prior = IF Has(before, normalizedAddress)
                                 THEN before[normalizedAddress] ELSE NoRecord,
                       !.returned = owns,
                       !.wrote = owns /\ write = "written",
                       !.loaded = Size(policyCache[p]) = 0, !.readOk = readOk]
        /\ written' = IF owns THEN MapDelete(written, normalizedAddress) ELSE written
        /\ UNCHANGED <<now, paraSecretKey, stripeSecretKey, pending>>

deleteWalletPolicy(p, walletAddress, parentAddress, readOk, write) ==
    LET normalizedAddress == normalizeAddress(walletAddress)
        before == getPolicyStore(policyCache[p], disk, readOk)
        owns == /\ Has(before, normalizedAddress)
                /\ before[normalizedAddress].parentAddress = normalizeAddress(parentAddress)
        store == IF owns THEN MapDelete(before, normalizedAddress) ELSE before
    IN  /\ Idle
        /\ policyCache' = [policyCache EXCEPT ![p] = store]
        /\ disk' = IF owns THEN savePoliciesToDisk(disk, store, write) ELSE disk
        /\ last' = [NoLast EXCEPT !.op = "delete", !.proc = p,
                       !.walletAddress = walletAddress, !.parentAddress = parentAddress,
                       !.hadRecord = Has(before, normalizedAddress),
                       !.prior = IF Has(before, normalizedAddress)
                                 THEN before[normalizedAddress] ELSE NoRecord,
                       !.returned = owns,
                       !.wrote = owns /\ write = "written",
                       !.loaded = Size(policyCache[p]) = 0, !.readOk = readOk]
        /\ written' = IF owns THEN MapDelete(written, normalizedAddress) ELSE written
        /\ UNCHANGED <<now, paraSecretKey, stripeSecretKey, pending>>

\* a new invocation of the hosting process: the module is loaded afresh and
\* policyCache is a new, empty Map
ColdStart(p) ==
    /\ Idle
    /\ policyCache[p] # EmptyMap
    /\ policyCache' = [policyCache EXCEPT ![p] = EmptyMap]
    /\ UNCHANGED <<disk, now, paraSecretKey, stripeSecretKey, written, last, pending>>

\* time passes
Tick ==
    /\ Idle
    /\ now < MaxClock
    /\ now' = now + 1
    /\ UNCHANGED <<disk, policyCache, paraSecretKey, stripeSecretKey, written, last, pending>>

---------------------------------------------------------------------------
(* sign-transaction.ts: the handler                                        *)

\* Array.prototype.find(c => c.type === type): the index of the first
\* condition of that type, 0 when there is none
FindFirst(conditions, type) ==
    LET S == {i \in DOMAIN conditions : conditions[i].type = type}
    IN  IF S = {} THEN 0 ELSE CHOOSE i \in S : \A j \in S : i <= j

\* the evaluation the handler runs when PARA_SECRET_KEY is not set: the
\* rejection code, or "" when it approves
LocalSimulation(policy, body) ==
    LET conditions == policy.globalConditions
        c == FindFirst(conditions, "chain")
        v == FindFirst(conditions, "value")
        a == FindFirst(conditions, "action")
    IN  IF /\ c # 0 /\ conditions[c].operator = "in"
           /\ ~Includes(conditions[c].chains, body.chainId)
        THEN "chain_restriction"
        ELSE IF /\ v # 0 /\ conditions[v].operator = "lessThanOrEqual"
                /\ body.hasValueUsd /\ body.valueUsd > conditions[v].num
        THEN "value_limit"
        ELSE IF /\ a # 0 /\ conditions[a].operator = "notEquals"
                /\ body.transactionType = conditions[a].action
        THEN "action_blocked"
        ELSE ""

NoResponse ==
    [status |-> 0, json |-> FALSE, allowed |-> FALSE, condition |-> "",
     paraEnforced |-> FALSE, rejectedBy |-> "", lookedUp |-> FALSE,
     stages |-> <<"received">>]

\* the stages of a request that passed the checks of its fields and read
\* the store, and of one that went on to the evaluation named by last
LookedUp == <<"received", "validated", "lookup">>
Evaluated(by) == <<"received", "validated", "lookup", by>>

Respond(status) == [NoResponse EXCEPT !.status = status, !.json = TRUE]

\* outcomes of loading and initialising the provider SDK
SdkOutcomes == {"ready", "importFails", "throwsRejected", "throwsOther"}

\* a handler that reads the store before it checks the address format
SignResponse_lookupFirst(method, body, store, key, sdk) ==
    LET got == getWalletPolicy(store, body.walletAddress)
        code == LocalSimulation(got.record.policy, body)
    IN  IF method = "OPTIONS" THEN [NoResponse EXCEPT !.status = 200]
        ELSE IF method # "POST" THEN Respond(405)
        ELSE IF body.walletAddress = NoAddress THEN Respond(400)
        ELSE IF body.chainId = "" THEN Respond(400)
        ELSE IF ~got.found
        THEN [Respond(404) EXCEPT !.paraEnforced = TRUE, !.lookedUp = TRUE,
                                  !.stages = LookedUp]
        ELSE IF ~MatchesAddressFormat(body.walletAddress)
        THEN [Respond(400) EXCEPT !.lookedUp = TRUE, !.stages = LookedUp]
        ELSE IF ~key
        THEN IF code # ""
             THEN [Respond(403) EXCEPT !.condition = code, !.paraEnforced = TRUE,
                                       !.rejectedBy = "para_policy", !.lookedUp = TRUE,
                                       !.stages = Evaluated("local")]
             ELSE [Respond(200) EXCEPT !.allowed = TRUE, !.paraEnforced = TRUE,
                                       !.lookedUp = TRUE, !.stages = Evaluated("local")]
        ELSE IF sdk = "importFails"
        THEN [Respond(500) EXCEPT !.lookedUp = TRUE, !.stages = Evaluated("provider")]
        ELSE IF sdk = "throwsRejected"
        THEN [Respond(403) EXCEPT !.paraEnforced = TRUE, !.rejectedBy = "para_policy",
                                  !.lookedUp = TRUE, !.stages = Evaluated("provider")]
        ELSE IF sdk = "throwsOther"
        THEN [Respond(500) EXCEPT !.lookedUp = TRUE, !.stages = Evaluated("provider")]
        ELSE [Respond(200) EXCEPT !.allowed = TRUE, !.paraEnforced = TRUE,
                                  !.lookedUp = TRUE, !.stages = Evaluated("provider")]

\* the response of the handler, and the stages the request went through on
\* its way to it; store is what getPolicyStore would return
SignResponse(method, body, store, key, sdk) ==
    LET got == getWalletPolicy(store, body.walletAddress)
        code == LocalSimulation(got.record.policy, body)
    IN  IF method = "OPTIONS" THEN [NoResponse EXCEPT !.status = 200]
        ELSE IF method # "POST" THEN Respond(405)
        ELSE IF body.walletAddress = NoAddress THEN Respond(400)
        ELSE IF body.chainId = "" THEN Respond(400)
        ELSE IF ~MatchesAddressFormat(body.walletAddress) THEN Respond(400)
        ELSE IF ~got.found
        THEN [Respond(404) EXCEPT !.paraEnforced = TRUE, !.lookedUp = TRUE,
                                  !.stages = LookedUp]
        ELSE IF ~key
        THEN IF code # ""
             THEN [Respond(403) EXCEPT !.condition = code, !.paraEnforced = TRUE,
                                       !.rejectedBy = "para_policy", !.lookedUp = TRUE,
                                       !.stages = Evaluated("local")]
             ELSE [Respond(200) EXCEPT !.allowed = TRUE, !.paraEnforced = TRUE,
                                       !.lookedUp = TRUE, !.stages = Evaluated("local")]
        ELSE IF sdk = "importFails"
        THEN [Respond(500) EXCEPT !.lookedUp = TRUE, !.stages = Evaluated("provider")]
        ELSE IF sdk = "throwsRejected"
        THEN [Respond(403) EXCEPT !.paraEnforced = TRUE, !.rejectedBy = "para_policy",
                                  !.lookedUp = TRUE, !.stages = Evaluated("provider")]
        ELSE IF sdk = "throwsOther" THEN [Respond(500) EXCEPT !.lookedUp = TRUE,
                                                             !.stages = Evaluated("provider")]
        ELSE [Respond(200) EXCEPT !.allowed = TRUE, !.paraEnforced = TRUE,
                                  !.lookedUp = TRUE, !.stages = Evaluated("provider")]

SignTransaction(p, method, body, readOk, sdk) ==
    LET store == getPolicyStore(policyCache[p], disk, readOk)
        got == getWalletPolicy(store, body.walletAddress)
        resp == SignResponse(method, body, store, paraSecretKey, sdk)
    IN  /\ Idle
        /\ policyCache' = IF resp.lookedUp
                          THEN [policyCache EXCEPT ![p] = store] ELSE policyCache
        /\ last' = [NoLast EXCEPT !.op = "sign", !.proc = p, !.method = method,
                       !.walletAddress = body.walletAddress,
                       !.tx = [chainId |-> body.chainId, hasValueUsd |-> body.hasValueUsd,
                               valueUsd |-> body.valueUsd,
                               transactionType |-> body.transactionType],
                       !.found = resp.lookedUp /\ got.found,
                       !.record = IF resp.lookedUp THEN got.record ELSE NoRecord,
                       !.policy = IF resp.lookedUp THEN got.record.policy ELSE NoPolicy,
                       !.allowed = resp.allowed, !.condition = resp.condition,
                       !.status = resp.status, !.json = resp.json,
                       !.stages = resp.stages,
                       !.failure = IF /\ resp.stages = Evaluated("provider")
                                      /\ sdk \in {"throwsRejected", "throwsOther"}
                                   THEN sdk ELSE "",
                       !.paraEnforced = resp.paraEnforced, !.rejectedBy = resp.rejectedBy,
                       !.loaded = resp.lookedUp /\ Size(policyCache[p]) = 0,
                       !.readOk = readOk]
        /\ UNCHANGED <<disk, now, paraSecretKey, stripeSecretKey, written, pending>>

SignBody(walletAddress, tx) ==
    [walletAddress |-> walletAddress, chainId |-> tx.chainId, hasValueUsd |-> tx.hasValueUsd,
     valueUsd |-> tx.valueUsd, transactionType |-> tx.transactionType]

SampleTransaction ==
    [chainId |-> BASE_CHAIN_ID, hasValueUsd |-> TRUE, valueUsd |-> 1,
     transactionType |-> "transfer"]

\* the requests of the multi-process specification: one that every stored
\* policy lets through, and a deployment above every ceiling on a chain that
\* only the full chain set allows
StoreTransactions ==
    {SampleTransaction,
     [chainId |-> "1", hasValueUsd |-> TRUE, valueUsd |-> MaxUsd + 1,
      transactionType |-> "deploy"]}

\* requests the handler turns away before it reads the store: no address,
\* no chain, an address too short, an address with a non-hex character
RejectedBodies ==
    {SignBody(NoAddress, SampleTransaction),
     SignBody(Addr("a"), [SampleTransaction EXCEPT !.chainId = ""]),
     SignBody(<<Run("0", 1), Run("x", 1), Run("a", ADDR_HEX_LEN - 1)>>, SampleTransaction),
     SignBody(Addr("g"), SampleTransaction)}

---------------------------------------------------------------------------
(* create-wallet.ts: the handler                                           *)

\* body.paymentToken: undefined, "", a string, or a JSON number
PaymentTokens == {"undefined", "empty", "string", "number"}

\* verifyPayment in which devMode bypasses a configured backend too
verifyPayment_devBypass(paymentToken, devMode, stripeKey) ==
    IF devMode THEN [success |-> TRUE, error |-> ""]
    ELSE IF ~stripeKey
    THEN [success |-> FALSE,
          error |-> "Payment processing not configured. Contact administrator."]
    ELSE IF paymentToken \in {"undefined", "empty"}
    THEN [success |-> FALSE, error |-> "Payment token required"]
    ELSE IF paymentToken = "number"
    THEN [success |-> FALSE, error |-> "paymentToken.substring is not a function"]
    ELSE [success |-> TRUE, error |-> ""]

\* verifyPayment(paymentToken, devMode) with STRIPE_SECRET_KEY set or not;
\* paymentToken.substring throws on a token that is not a string, and the
\* catch turns that into a failure
verifyPayment(paymentToken, devMode, stripeKey) ==
    IF ~stripeKey
    THEN IF devMode THEN [success |-> TRUE, error |-> ""]
         ELSE [success |-> FALSE,
               error |-> "Payment processing not configured. Contact administrator."]
    ELSE IF paymentToken \in {"undefined", "empty"}
    THEN [success |-> FALSE, error |-> "Payment token required"]
    ELSE IF paymentToken = "number"
    THEN [success |-> FALSE, error |-> "paymentToken.substring is not a function"]
    ELSE [success |-> TRUE, error |-> ""]

\* what the provider SDK does in createWalletViaPara: the import fails,
\* para.ready() throws, createPregenWallet throws, it returns a wallet whose
\* address is not a string, or it returns a wallet with a string address
\* (possibly missing or empty)
ProviderOutcomes == {"importFails", "readyThrows", "createThrows", "nonString", "returns"}

\* an address one digit short
ShortAddr(c) == <<Run("0", 1), Run("x", 1), Run(c, ADDR_HEX_LEN - 1)>>

\* wallet.address as the provider returns it: missing, well formed (in
\* upper or lower case), too short, or with a character that is no hex digit
ProviderAddresses == {NoAddress, Addr("A"), Addr("b"), ShortAddr("a"), Addr("g")}

\* a JSON number where the handler expects a string
NumberValue == <<Run("number", 0)>>

NoCreateBody ==
    [hasBody |-> FALSE, parentWalletAddress |-> NoAddress, restrictToBase |-> "undefined",
     hasMaxUsd |-> FALSE, maxUsd |-> 0, policyName |-> "",
     paymentToken |-> "undefined", devMode |-> FALSE]

CreateBody(parent, restrict, hasMax, max, token, dev) ==
    [hasBody |-> TRUE, parentWalletAddress |-> parent, restrictToBase |-> restrict,
     hasMaxUsd |-> hasMax, maxUsd |-> max, policyName |-> "",
     paymentToken |-> token, devMode |-> dev]

\* createWalletViaPara up to the call of storeWalletPolicy: whether it gets
\* there, and the error it returns when it does not
createWalletViaPara(key, provider, address) ==
    IF ~key
    THEN [reaches |-> FALSE,
          error |-> "Para API key not configured. Set PARA_SECRET_KEY in environment."]
    ELSE IF provider = "importFails"
    THEN [reaches |-> FALSE, error |-> "Para SDK failed to load. Check server logs."]
    ELSE IF provider \in {"readyThrows", "createThrows"}
    THEN [reaches |-> FALSE, error |-> "Wallet creation failed"]
    ELSE IF provider = "nonString"
    THEN [reaches |-> FALSE, error |-> "address.toLowerCase is not a function"]
    ELSE IF address = NoAddress
    THEN [reaches |-> FALSE, error |-> "Para SDK returned no wallet address"]
    ELSE [reaches |-> TRUE, error |-> ""]

\* a handler that sends every request with a parent address on to payment
CreateStage_noFormatCheck(method, body, key, stripeKey, provider, address) ==
    IF method # "POST" THEN [stage |-> "method", status |-> 405]
    ELSE IF ~body.hasBody THEN [stage |-> "thrown", status |-> 500]
    ELSE IF body.parentWalletAddress = NoAddress THEN [stage |-> "address", status |-> 400]
    ELSE IF ~verifyPayment(body.paymentToken, body.devMode, stripeKey).success
    THEN [stage |-> "payment", status |-> 402]
    ELSE IF ~createWalletViaPara(key, provider, address).reaches
    THEN [stage |-> "provider", status |-> 500]
    ELSE [stage |-> "stored", status |-> 200]

\* the stage at which the handler answers, and its status.  Reading a field
\* of an undefined body, and calling match on a number, throw into the outer
\* catch
CreateStage(method, body, key, stripeKey, provider, address) ==
    IF method # "POST" THEN [stage |-> "method", status |-> 405]
    ELSE IF ~body.hasBody THEN [stage |-> "thrown", status |-> 500]
    ELSE IF body.parentWalletAddress = NoAddress THEN [stage |-> "address", status |-> 400]
    ELSE IF body.parentWalletAddress = NumberValue THEN [stage |-> "thrown", status |-> 500]
    ELSE IF ~MatchesAddressFormat(body.parentWalletAddress)
    THEN [stage |-> "address", status |-> 400]
    ELSE IF ~verifyPayment(body.paymentToken, body.devMode, stripeKey).success
    THEN [stage |-> "payment", status |-> 402]
    ELSE IF ~createWalletViaPara(key, provider, address).reaches
    THEN [stage |-> "provider", status |-> 500]
    ELSE [stage |-> "stored", status |-> 200]

CreateWallet(p, method, body, provider, address, readOk, write) ==
    LET at == CreateStage(method, body, paraSecretKey, stripeSecretKey, provider, address)
        payment == verifyPayment(body.paymentToken, body.devMode, stripeSecretKey)
        policy == buildParaPolicy([restrictToBase |-> body.restrictToBase = "true",
                                   hasMaxUsd |-> body.hasMaxUsd, maxUsd |-> body.maxUsd,
                                   name |-> body.policyName])
        normalizedAddress == normalizeAddress(address)
        record == [walletAddress |-> normalizedAddress,
                   parentAddress |-> normalizeAddress(body.parentWalletAddress),
                   policy |-> policy, createdAt |-> now, updatedAt |-> now]
        before == getPolicyStore(policyCache[p], disk, readOk)
        store == MapSet(before, normalizedAddress, record)
        stores == at.stage = "stored"
    IN  /\ Idle
        /\ policyCache' = IF stores THEN [policyCache EXCEPT ![p] = store] ELSE policyCache
        /\ disk' = IF stores THEN savePoliciesToDisk(disk, store, write) ELSE disk
        /\ written' = IF stores THEN MapSet(written, normalizedAddress, record) ELSE written
        /\ last' = [NoLast EXCEPT !.op = "create", !.proc = p, !.method = method,
                       !.parentAddress = body.parentWalletAddress,
                       !.status = at.status, !.json = TRUE,
                       !.success = at.status = 200,
                       !.paymentToken = body.paymentToken, !.devMode = body.devMode,
                       !.stage = at.stage, !.hasBody = body.hasBody,
                       !.failure = IF at.stage = "thrown" THEN "throwsOther" ELSE "",
                       !.error = IF at.stage = "payment" THEN payment.error
                                 ELSE IF at.stage = "provider"
                                 THEN createWalletViaPara(paraSecretKey, provider, address).error
                                 ELSE "",
                       !.paid = at.stage \in {"provider", "stored"},
                       !.provided = IF at.stage \in {"provider", "stored"}
                                       /\ paraSecretKey /\ provider = "returns"
                                    THEN address ELSE NoAddress,
                       !.walletAddress = IF stores THEN address ELSE NoAddress,
                       !.policy = IF stores THEN policy ELSE NoPolicy,
                       !.stored = stores,
                       !.wrote = stores /\ write = "written",
                       !.loaded = stores /\ Size(policyCache[p]) = 0, !.readOk = readOk]
        /\ UNCHANGED <<now, paraSecretKey, stripeSecretKey, pending>>

---------------------------------------------------------------------------
(* The diagnostic listing, the end-to-end check and the test endpoint      *)

Methods == {"OPTIONS", "GET", "POST"}

\* wallet-flow.ts: the two policies of the end-to-end check, and its
\* transfer of $10 on Base
PolicyA ==
    [name |-> "Wallet A - $15 Limit", allowedChains |-> <<"8453">>,
     globalConditions |-> <<ChainCond(<<"8453">>), ValueCond(15), ActionCond("deploy")>>]
PolicyB ==
    [name |-> "Wallet B - $5 Limit", allowedChains |-> <<"8453">>,
     globalConditions |-> <<ChainCond(<<"8453">>), ValueCond(5), ActionCond("deploy")>>]
TenDollarTransfer ==
    [chainId |-> "8453", hasValueUsd |-> TRUE, valueUsd |-> 10, transactionType |-> "transfer"]

\* whether something unexpected is thrown inside the handler's try block
Failures == {"", "throwsOther"}

\* the listing handler: OPTIONS ends without a body, only GET is served
DebugStatus(method, failure) ==
    IF method = "OPTIONS" THEN [status |-> 200, json |-> FALSE]
    ELSE IF method # "GET" THEN [status |-> 405, json |-> TRUE]
    ELSE IF failure # "" THEN [status |-> 500, json |-> TRUE]
    ELSE [status |-> 200, json |-> TRUE]

DebugPolicies(p, method, readOk, failure) ==
    LET store == getPolicyStore(policyCache[p], disk, readOk)
        resp == DebugStatus(method, failure)
        reads == method = "GET"
    IN  /\ Idle
        /\ policyCache' = IF reads THEN [policyCache EXCEPT ![p] = store] ELSE policyCache
        /\ last' = [NoLast EXCEPT !.op = "debug", !.proc = p, !.method = method,
                       !.status = resp.status, !.json = resp.json,
                       !.success = resp.status = 200 /\ resp.json,
                       !.results = IF resp.status = 200 /\ resp.json
                                   THEN getAllPolicies(store) ELSE {},
                       !.failure = IF reads THEN failure ELSE "",
                       !.loaded = reads /\ Size(policyCache[p]) = 0, !.readOk = readOk]
        /\ UNCHANGED <<disk, now, paraSecretKey, stripeSecretKey, written, pending>>

\* '0xparent1' and '0xparent2', the parents the end-to-end check stores under
FlowParent(n) == <<Run("0", 1), Run("x", 1), Run("parent", 1), Run(n, 1)>>

\* the end-to-end check: OPTIONS ends without a body, every other method
\* runs the check
FlowStatus(method, failure) ==
    IF method = "OPTIONS" THEN [status |-> 200, json |-> FALSE]
    ELSE IF failure # "" THEN [status |-> 500, json |-> TRUE]
    ELSE [status |-> 200, json |-> TRUE]

\* wallet-flow.ts: two puts under generated addresses, four validations and
\* a listing; a failure is thrown before the first put
WalletFlow(p, method, walletA, walletB, readOk, writeA, writeB, failure) ==
    LET resp == FlowStatus(method, failure)
        runs == resp.status = 200 /\ resp.json
        recordA == [walletAddress |-> normalizeAddress(walletA),
                    parentAddress |-> normalizeAddress(FlowParent("1")),
                    policy |-> PolicyA, createdAt |-> now, updatedAt |-> now]
        recordB == [walletAddress |-> normalizeAddress(walletB),
                    parentAddress |-> normalizeAddress(FlowParent("2")),
                    policy |-> PolicyB, createdAt |-> now, updatedAt |-> now]
        storeA == MapSet(getPolicyStore(policyCache[p], disk, readOk),
                         normalizeAddress(walletA), recordA)
        diskA == savePoliciesToDisk(disk, storeA, writeA)
        storeB == MapSet(getPolicyStore(storeA, diskA, TRUE),
                         normalizeAddress(walletB), recordB)
        diskB == savePoliciesToDisk(diskA, storeB, writeB)
        aboveLimit == validateTransaction(storeB, walletB, TenDollarTransfer)
        wrongChain == validateTransaction(storeB, walletA,
                         [chainId |-> "1", hasValueUsd |-> TRUE, valueUsd |-> 5,
                          transactionType |-> "transfer"])
        valid == validateTransaction(storeB, walletA, TenDollarTransfer)
        deploy == validateTransaction(storeB, walletA,
                         [chainId |-> "8453", hasValueUsd |-> TRUE, valueUsd |-> 0,
                          transactionType |-> "deploy"])
    IN  /\ Idle
        /\ policyCache' = IF runs THEN [policyCache EXCEPT ![p] = storeB] ELSE policyCache
        /\ disk' = IF runs THEN diskB ELSE disk
        /\ written' = IF runs
                      THEN MapSet(MapSet(written, normalizeAddress(walletA), recordA),
                                  normalizeAddress(walletB), recordB)
                      ELSE written
        /\ last' = [NoLast EXCEPT !.op = "flow", !.proc = p, !.method = method,
                       !.status = resp.status, !.json = resp.json, !.success = runs,
                       !.allPassed = /\ runs /\ walletA # walletB
                                     /\ ~aboveLimit.allowed /\ ~wrongChain.allowed
                                     /\ valid.allowed /\ ~deploy.allowed,
                       !.results = IF runs THEN getAllPolicies(storeB) ELSE {},
                       !.failure = IF method = "OPTIONS" THEN "" ELSE failure,
                       !.loaded = runs /\ Size(policyCache[p]) = 0, !.readOk = readOk]
        /\ UNCHANGED <<now, paraSecretKey, stripeSecretKey, pending>>

\* test/simple.ts: every method gets the same answer
Simple(p, method) ==
    /\ Idle
    /\ last' = [NoLast EXCEPT !.op = "simple", !.proc = p, !.method = method,
                   !.status = 200, !.json = TRUE, !.success = TRUE]
    /\ UNCHANGED <<disk, policyCache, now, paraSecretKey, stripeSecretKey, written, pending>>

\* the health check at the head of wallet-flow.ts: every method gets the
\* state of the configuration, 503 when PARA_SECRET_KEY is missing
Health(p, method) ==
    /\ Idle
    /\ last' = [NoLast EXCEPT !.op = "health", !.proc = p, !.method = method,
                   !.status = IF paraSecretKey THEN 200 ELSE 503, !.json = TRUE,
                   !.success = paraSecretKey]
    /\ UNCHANGED <<disk, policyCache, now, paraSecretKey, stripeSecretKey, written, pending>>

---------------------------------------------------------------------------
(* storeWalletPolicy in its two accesses to the file.  Within a process    *)
(* the call runs to completion; between its readFileSync and its           *)
(* writeFileSync another process may read or write the file.               *)

\* lines 146-159: build the record, get the store, set the entry
PutLoad(p, walletAddress, parentAddress, policy, readOk) ==
    LET normalizedAddress == normalizeAddress(walletAddress)
        record == [walletAddress |-> normalizedAddress,
                   parentAddress |-> normalizeAddress(parentAddress),
                   policy |-> policy, createdAt |-> now, updatedAt |-> now]
        before == getPolicyStore(policyCache[p], disk, readOk)
    IN  /\ pending[p].phase # "loaded"
        /\ policyCache' = [policyCache EXCEPT ![p] = MapSet(before, normalizedAddress, record)]
        /\ pending' = [pending EXCEPT ![p] =
                          [phase |-> "loaded", key |-> normalizedAddress, record |-> record,
                           wasEmpty |-> Size(policyCache[p]) = 0, seen |-> before,
                           loadedAt |-> ops + 1, savedAt |-> 0, write |-> ""]]
        /\ written' = MapSet(written, normalizedAddress, record)
        /\ UNCHANGED <<disk, now, paraSecretKey, stripeSecretKey, last>>

\* a save that adds the process's entries to what the file holds
PutSave_merging(p, write) ==
    /\ pending[p].phase = "loaded"
    /\ disk' = savePoliciesToDisk(disk,
                  [k \in DOMAIN disk \cup DOMAIN policyCache[p] |->
                      IF Has(policyCache[p], k) THEN policyCache[p][k] ELSE disk[k]],
                  write)
    /\ pending' = [pending EXCEPT ![p].phase = "saved", ![p].savedAt = ops + 1,
                                  ![p].write = write]
    /\ UNCHANGED <<policyCache, now, paraSecretKey, stripeSecretKey, written, last>>

\* line 162: savePoliciesToDisk(store)
PutSave(p, write) ==
    /\ pending[p].phase = "loaded"
    /\ disk' = savePoliciesToDisk(disk, policyCache[p], write)
    /\ pending' = [pending EXCEPT ![p].phase = "saved", ![p].savedAt = ops + 1,
                                  ![p].write = write]
    /\ UNCHANGED <<policyCache, now, paraSecretKey, stripeSecretKey, written, last>>

---------------------------------------------------------------------------
(* Specifications                                                          *)

\* STRIPE_SECRET_KEY is read by create-wallet only; the specifications
\* without that endpoint run the deployment that leaves it unset
StripeConfigurations == {FALSE}

Init ==
    /\ disk = EmptyMap
    /\ policyCache = [p \in Procs |-> EmptyMap]
    /\ now = 0
    /\ paraSecretKey \in BOOLEAN
    /\ stripeSecretKey \in StripeConfigurations
    /\ ops = 0
    /\ written = EmptyMap
    /\ last = NoLast
    /\ pending = [p \in Procs |-> NoPending]

Count == ops < MaxOps /\ ops' = ops + 1

\* Spec: several processes on one durable file, reads and writes may fail
Next ==
    \/ Count /\ \E p \in Procs, w \in WalletsWritten, par \in ParentsWriting,
                   pol \in StorePolicies, write \in WriteOutcomes :
                   \E readOk \in ReadOutcomes(p) :
                      storeWalletPolicy(p, w, par, pol, readOk, write)
    \/ Count /\ \E p \in Procs, w \in WalletsRead : \E readOk \in ReadOutcomes(p) :
                      GetWalletPolicy(p, w, readOk)
    \/ Count /\ \E p \in Procs, w \in WalletsRead, par \in ParentsDeleting,
                   write \in WriteOutcomes : \E readOk \in ReadOutcomes(p) :
                      deleteWalletPolicy(p, w, par, readOk, write)
    \/ Count /\ \E p \in Procs, w \in WalletsRead, tx \in StoreTransactions :
                   \E readOk \in ReadOutcomes(p) :
                      ValidateTransaction(p, w, tx, readOk)
    \/ Count /\ \E p \in Procs, par \in ParentsListing : \E readOk \in ReadOutcomes(p) :
                      ListPoliciesByParent(p, par, readOk)
    \/ Count /\ \E p \in Procs : \E readOk \in ReadOutcomes(p) : GetAllPolicies(p, readOk)
    \/ Count /\ \E p \in Procs : ColdStart(p)
    \/ Count /\ Tick
    \/ Return

Spec == Init /\ [][Next]_vars

\* the provider SDK is loaded only when the key is set
SdkOutcomesFor(key) == IF key THEN SdkOutcomes ELSE {"ready"}

\* SpecV: one process, one stored wallet, every policy and every request
NextV ==
    \/ \E pol \in AllPolicies :
            storeWalletPolicy("p1", Addr("A"), Addr("C"), pol, TRUE, "written") /\ UNCHANGED ops
    \/ \E tx \in Transactions :
            ValidateTransaction("p1", Addr("a"), tx, TRUE) /\ UNCHANGED ops
    \/ ValidateTransaction("p1", Addr("b"), SampleTransaction, TRUE) /\ UNCHANGED ops
    \/ \E tx \in Transactions, sdk \in SdkOutcomesFor(paraSecretKey) :
            SignTransaction("p1", "POST", SignBody(Addr("a"), tx), TRUE, sdk) /\ UNCHANGED ops
    \/ \E body \in RejectedBodies \cup {SignBody(Addr("b"), SampleTransaction)} :
            SignTransaction("p1", "POST", body, TRUE, "ready") /\ UNCHANGED ops
    \/ \E method \in {"OPTIONS", "GET"} :
            SignTransaction("p1", method, SignBody(Addr("a"), SampleTransaction), TRUE, "ready")
              /\ UNCHANGED ops
    \/ deleteWalletPolicy("p1", Addr("a"), Addr("c"), TRUE, "written") /\ UNCHANGED ops
    \/ Return

SpecV == Init /\ [][NextV]_vars

\* SpecP: provisioning through create-wallet, with either payment
\* configuration
InitP ==
    /\ disk = EmptyMap
    /\ policyCache = [p \in Procs |-> EmptyMap]
    /\ now = 0
    /\ paraSecretKey \in BOOLEAN
    /\ stripeSecretKey \in BOOLEAN
    /\ ops = 0
    /\ written = EmptyMap
    /\ last = NoLast
    /\ pending = [p \in Procs |-> NoPending]

\* the parent address a request carries: missing, well formed, malformed,
\* not a string
CreateParents == {NoAddress, Addr("C"), Addr("g"), NumberValue}

\* a request that passes the payment step under either configuration
PaidBodies ==
    {CreateBody(Addr("C"), restrict, hasMax, max, "string", TRUE) :
        restrict \in {"true", "false", "undefined"}, hasMax \in BOOLEAN, max \in 0..MaxUsd}

\* what the provider does: each way of failing, and each address returned
ProviderResults ==
    {<<provider, Addr("A")>> : provider \in ProviderOutcomes \ {"returns"}}
      \cup {<<"returns", address>> : address \in ProviderAddresses}

\* the requests validated in SpecP: every deployment, and a plain transfer
ProvisionedTransactions ==
    {tx \in Transactions : tx.transactionType = "deploy"} \cup {SampleTransaction}

NextP ==
    \/ Count /\ \E parent \in CreateParents, token \in PaymentTokens, dev \in BOOLEAN,
                   result \in ProviderResults :
                      CreateWallet("p1", "POST",
                                   CreateBody(parent, "true", TRUE, 1, token, dev),
                                   result[1], result[2], TRUE, "written")
    \/ Count /\ \E body \in PaidBodies, address \in ProviderAddresses,
                   write \in WriteOutcomes : \E readOk \in ReadOutcomes("p1") :
                      CreateWallet("p1", "POST", body, "returns", address, readOk, write)
    \/ Count /\ CreateWallet("p1", "POST", NoCreateBody, "returns", Addr("A"), TRUE, "written")
    \/ Count /\ CreateWallet("p1", "GET",
                              CreateBody(Addr("C"), "true", TRUE, 1, "string", TRUE),
                              "returns", Addr("A"), TRUE, "written")
    \/ Count /\ \E w \in WalletsRead, tx \in ProvisionedTransactions :
                   \E readOk \in ReadOutcomes("p1") :
                      ValidateTransaction("p1", w, tx, readOk)
    \/ Count /\ ColdStart("p1")
    \/ Return

SpecP == InitP /\ [][NextP]_vars

\* the requests of the end-to-end check: steps 4 to 7
FlowTransactions ==
    {TenDollarTransfer,
     [chainId |-> "1", hasValueUsd |-> TRUE, valueUsd |-> 5, transactionType |-> "transfer"],
     [chainId |-> "8453", hasValueUsd |-> TRUE, valueUsd |-> 0, transactionType |-> "deploy"]}

\* SpecC: the reads and writes of two processes' storeWalletPolicy calls,
\* interleaved
CountC == ops < MaxSteps /\ ops' = ops + 1

\* the file an earlier invocation left behind: none, or one record
EarlierFiles ==
    {EmptyMap,
     [k \in {Addr("b")} |->
        [walletAddress |-> Addr("b"), parentAddress |-> Addr("d"), policy |-> PolicyB,
         createdAt |-> 0, updatedAt |-> 0]]}

InitC ==
    /\ disk \in EarlierFiles
    /\ policyCache = [p \in Procs |-> EmptyMap]
    /\ now = 0
    /\ paraSecretKey = FALSE
    /\ stripeSecretKey = FALSE
    /\ ops = 0
    /\ written = disk
    /\ last = NoLast
    /\ pending = [p \in Procs |-> NoPending]

NextC ==
    \/ CountC /\ \E p \in Procs, w \in WalletsWritten, par \in ParentsWriting :
                    \E readOk \in ReadOutcomes(p) :
                       PutLoad(p, w, par, PolicyA, readOk)
    \/ CountC /\ \E p \in Procs, write \in WriteOutcomes : PutSave(p, write)

SpecC == InitC /\ [][NextC]_vars

\* SpecB: buildParaPolicy on every input
BuildParaPolicy(p, options) ==
    /\ Idle
    /\ last' = [NoLast EXCEPT !.op = "build", !.proc = p, !.options = options,
                   !.policy = buildParaPolicy(options)]
    /\ UNCHANGED <<disk, policyCache, now, paraSecretKey, stripeSecretKey, written, pending>>

NextB ==
    \/ Count /\ \E options \in AnyOptions : BuildParaPolicy("p1", options)
    \/ Return

SpecB == Init /\ [][NextB]_vars

\* SpecH: every handler under every method
NextH ==
    \/ Count /\ \E method \in Methods, sdk \in SdkOutcomesFor(paraSecretKey),
                   body \in RejectedBodies \cup {SignBody(Addr("a"), SampleTransaction)} :
                      SignTransaction("p1", method, body, TRUE, sdk)
    \/ Count /\ \E method \in Methods, result \in ProviderResults,
                   body \in {NoCreateBody,
                             CreateBody(Addr("C"), "true", TRUE, 1, "string", TRUE),
                             CreateBody(NumberValue, "true", TRUE, 1, "string", TRUE)} :
                      CreateWallet("p1", method, body, result[1], result[2], TRUE, "written")
    \/ Count /\ \E method \in Methods, failure \in Failures :
                   \E readOk \in ReadOutcomes("p1") :
                      DebugPolicies("p1", method, readOk, failure)
    \/ Count /\ \E method \in Methods, failure \in Failures, a \in WalletsRead,
                   b \in WalletsRead, writeA \in WriteOutcomes, writeB \in WriteOutcomes :
                   \E readOk \in ReadOutcomes("p1") :
                      WalletFlow("p1", method, a, b, readOk, writeA, writeB, failure)
    \/ Count /\ \E method \in Methods : Simple("p1", method)
    \/ Count /\ \E method \in Methods : Health("p1", method)
    \/ Count /\ ColdStart("p1")
    \/ Return

SpecH == InitP /\ [][NextH]_vars

\* SpecI: the policies of the end-to-end check, stored, overwritten, deleted
\* and validated by two processes
NextI ==
    \/ Count /\ \E p \in Procs, w \in WalletsWritten, pol \in {PolicyA, PolicyB},
                   write \in WriteOutcomes : \E readOk \in ReadOutcomes(p) :
                      storeWalletPolicy(p, w, Addr("C"), pol, readOk, write)
    \/ Count /\ \E p \in Procs, w \in WalletsRead, write \in WriteOutcomes :
                   \E readOk \in ReadOutcomes(p) :
                      deleteWalletPolicy(p, w, Addr("C"), readOk, write)
    \/ Count /\ \E p \in Procs, w \in WalletsRead, tx \in FlowTransactions :
                   \E readOk \in ReadOutcomes(p) :
                      ValidateTransaction(p, w, tx, readOk)
    \/ Count /\ \E p \in Procs : ColdStart(p)
    \/ Return

SpecI == Init /\ [][NextI]_vars

---------------------------------------------------------------------------
(* What a condition asks of a request, stated apart from the validator     *)

\* the request meets the condition
ConditionHolds(c, tx) ==
    CASE c.type = "chain" /\ c.operator = "in" ->
            tx.chainId \in {c.chains[i] : i \in DOMAIN c.chains}
      [] c.type = "action" /\ c.operator = "notEquals" ->
            tx.transactionType # c.action
      [] c.type = "value" /\ c.operator = "lessThanOrEqual" ->
            ~tx.hasValueUsd \/ tx.valueUsd <= c.num
      [] OTHER -> TRUE

\* the rejection code that belongs to a condition's type
CodeOf(c) ==
    CASE c.type = "chain" -> "chain_restriction"
      [] c.type = "action" -> "action_restriction"
      [] c.type = "value" -> "value_limit"
      [] OTHER -> ""

\* the positions of the conditions the request does not meet
Failing(conditions, tx) ==
    {i \in DOMAIN conditions : ~ConditionHolds(conditions[i], tx)}

\* no condition listed before position i fails
NoneFailsBefore(conditions, i, tx) == \A j \in Failing(conditions, tx) : j >= i

\* no condition other than the one at position i fails
NoOtherFails(conditions, i, tx) == Failing(conditions, tx) \subseteq {i}

\* a validateTransaction call that found a record is in flight
Validated == last.op = "validate" /\ last.found

ValidatedConditions == last.record.policy.globalConditions

\* the key the call in flight addresses
LastKey == normalizeAddress(last.walletAddress)

---------------------------------------------------------------------------
(* C1 .. C3: one condition and its rejection code                          *)

\* C1 as stated: for every stored policy with a chain condition, a request
\* whose chainId is not in the allowed set is denied with 'chain_restriction',
\* and one whose chainId is in the set is allowed when no other condition fails.
C1_ChainAsStated ==
    Validated =>
        \A i \in DOMAIN ValidatedConditions :
            LET c == ValidatedConditions[i]
            IN  (c.type = "chain" /\ c.operator = "in") =>
                    IF ~ConditionHolds(c, last.tx)
                    THEN ~last.allowed /\ last.condition = "chain_restriction"
                    ELSE NoOtherFails(ValidatedConditions, i, last.tx) => last.allowed

\* C1: a request whose chainId is not in the allowed set of a chain condition
\* is always denied; the code is 'chain_restriction' when no condition listed
\* before that chain condition fails (the chain condition is first in every
\* policy of buildParaPolicy); a request whose chainId is in the set is
\* allowed when no other condition fails.
C1_ChainRestriction ==
    Validated =>
        \A i \in DOMAIN ValidatedConditions :
            LET c == ValidatedConditions[i]
            IN  (c.type = "chain" /\ c.operator = "in") =>
                    IF ~ConditionHolds(c, last.tx)
                    THEN /\ ~last.allowed
                         /\ NoneFailsBefore(ValidatedConditions, i, last.tx)
                              => last.condition = "chain_restriction"
                    ELSE NoOtherFails(ValidatedConditions, i, last.tx) => last.allowed

\* a builder policy restricted to Base turned a request on chain "1" away
C1_Witness ==
    /\ Validated
    /\ last.record.policy \in BuilderPolicies
    /\ last.record.policy.allowedChains = <<BASE_CHAIN_ID>>
    /\ last.tx.chainId = "1"
    /\ ~last.allowed
    /\ last.condition = "chain_restriction"

\* C2 as stated: for every policy with a value condition of ceiling C, a
\* request whose valueUsd is exactly C is allowed when no other condition
\* fails, and every request whose valueUsd exceeds C is denied with
\* 'value_limit'.
C2_ValueAsStated ==
    Validated =>
        \A i \in DOMAIN ValidatedConditions :
            LET c == ValidatedConditions[i]
            IN  (c.type = "value" /\ c.operator = "lessThanOrEqual" /\ last.tx.hasValueUsd) =>
                    /\ (last.tx.valueUsd = c.num
                          /\ NoOtherFails(ValidatedConditions, i, last.tx)) => last.allowed
                    /\ last.tx.valueUsd > c.num
                          => ~last.allowed /\ last.condition = "value_limit"

\* C2: a request whose valueUsd is exactly the ceiling C is allowed when no
\* other condition fails; every request whose valueUsd exceeds C is denied,
\* with 'value_limit' when no condition listed before the value condition
\* fails.
C2_ValueLimit ==
    Validated =>
        \A i \in DOMAIN ValidatedConditions :
            LET c == ValidatedConditions[i]
            IN  (c.type = "value" /\ c.operator = "lessThanOrEqual" /\ last.tx.hasValueUsd) =>
                    /\ (last.tx.valueUsd = c.num
                          /\ NoOtherFails(ValidatedConditions, i, last.tx)) => last.allowed
                    /\ last.tx.valueUsd > c.num =>
                          /\ ~last.allowed
                          /\ NoneFailsBefore(ValidatedConditions, i, last.tx)
                               => last.condition = "value_limit"

\* a request at exactly the ceiling of a value condition was allowed
C2_Witness ==
    /\ Validated
    /\ last.allowed
    /\ last.tx.hasValueUsd
    /\ \E i \in DOMAIN ValidatedConditions :
          /\ ValidatedConditions[i].type = "value"
          /\ ValidatedConditions[i].num = last.tx.valueUsd

\* C3 as stated: for every policy with an action condition naming A, every
\* request of type A is denied with 'action_restriction', whatever its
\* chainId and valueUsd.
C3_ActionAsStated ==
    Validated =>
        \A i \in DOMAIN ValidatedConditions :
            LET c == ValidatedConditions[i]
            IN  (c.type = "action" /\ c.operator = "notEquals"
                   /\ last.tx.transactionType = c.action)
                    => ~last.allowed /\ last.condition = "action_restriction"

\* C3: every request of the type an action condition names is denied,
\* whatever its chainId and valueUsd; the code is 'action_restriction' when
\* no condition listed before the action condition fails.
C3_ActionRestriction ==
    Validated =>
        \A i \in DOMAIN ValidatedConditions :
            LET c == ValidatedConditions[i]
            IN  (c.type = "action" /\ c.operator = "notEquals"
                   /\ last.tx.transactionType = c.action) =>
                    /\ ~last.allowed
                    /\ NoneFailsBefore(ValidatedConditions, i, last.tx)
                         => last.condition = "action_restriction"

\* a builder policy turned a deployment on an allowed chain away
C3_Witness ==
    /\ Validated
    /\ last.record.policy \in BuilderPolicies
    /\ last.tx.transactionType = "deploy"
    /\ last.tx.chainId = BASE_CHAIN_ID
    /\ ~last.allowed
    /\ last.condition = "action_restriction"

---------------------------------------------------------------------------
(* C4: the signing endpoint                                                *)

\* C4 as stated: sign-transaction never answers allowed=true with status 200
\* for a request that violates a condition of the policy stored for the
\* wallet, whether or not PARA_SECRET_KEY is set.
C4_NoApprovalOfViolation ==
    (last.op = "sign" /\ last.status = 200 /\ last.allowed) =>
        Failing(last.record.policy.globalConditions, last.tx) = {}

---------------------------------------------------------------------------
(* C7, C8: no record; several violations                                   *)

\* C7: validateTransaction for an address that has no record in the store
\* returns allowed=false with condition 'no_policy' for every request, and
\* no condition-specific code.
C7_NoPolicy ==
    (last.op = "validate" /\ ~Has(policyCache[last.proc], LastKey)) =>
        /\ ~last.allowed
        /\ last.condition = "no_policy"
        /\ last.condition \notin {"chain_restriction", "action_restriction", "value_limit"}

\* a deployment on a chain of no allow-list, above every ceiling, for a
\* wallet without a record
C7_Witness ==
    /\ last.op = "validate"
    /\ ~last.found
    /\ last.condition = "no_policy"
    /\ last.tx.transactionType = "deploy"
    /\ last.tx.chainId = "56"
    /\ last.tx.valueUsd = MaxUsd + 1

\* the kinds of condition the request fails
FailingKinds(conditions, tx) == {conditions[i].type : i \in Failing(conditions, tx)}

\* C8 as stated: a request that violates a condition gets exactly one
\* rejection, chosen in the order chain, action, value.
C8_KindOrderAsStated ==
    (Validated /\ Failing(ValidatedConditions, last.tx) # {}) =>
        /\ ~last.allowed
        /\ last.condition =
              IF "chain" \in FailingKinds(ValidatedConditions, last.tx)
              THEN "chain_restriction"
              ELSE IF "action" \in FailingKinds(ValidatedConditions, last.tx)
              THEN "action_restriction"
              ELSE "value_limit"

\* C8: a request that violates one or more conditions gets exactly one
\* rejection, the code of the first failing condition in the order the
\* policy lists its conditions; for a policy of buildParaPolicy that order is
\* chain, then value, then action.
C8_ListOrder ==
    Validated =>
        LET failing == Failing(ValidatedConditions, last.tx)
            first == CHOOSE i \in failing : \A j \in failing : i <= j
            kinds == FailingKinds(ValidatedConditions, last.tx)
        IN  IF failing = {}
            THEN last.allowed /\ last.condition = ""
            ELSE /\ ~last.allowed
                 /\ last.condition = CodeOf(ValidatedConditions[first])
                 /\ last.record.policy \in BuilderPolicies =>
                      last.condition =
                          IF "chain" \in kinds THEN "chain_restriction"
                          ELSE IF "value" \in kinds THEN "value_limit"
                          ELSE "action_restriction"

\* a builder policy with a ceiling met a deployment above the ceiling on an
\* allowed chain, and answered with the value code
C8_Witness ==
    /\ Validated
    /\ last.record.policy \in BuilderPolicies
    /\ FailingKinds(ValidatedConditions, last.tx) = {"value", "action"}
    /\ last.condition = "value_limit"

---------------------------------------------------------------------------
(* C5, C6: ownership                                                       *)

\* the store a call by process p consults, seen from the state before the
\* call: p's cache, or the file as read when the cache is empty
Consulted(p, readOk) ==
    IF policyCache[p] # EmptyMap THEN policyCache[p]
    ELSE IF readOk THEN disk ELSE EmptyMap

\* the step that starts a call of the operation op
Calls(op) == last.op = "idle" /\ last'.op = op

\* C5 as stated: a put for an address that already has a record takes
\* effect only if the requesting parent equals the stored parentAddress
\* ignoring case; a put by another parent leaves the record's policy and
\* owner as they were.
C5_PutByOwnerOnly ==
    (last.op = "put" /\ last.hadRecord
       /\ last.prior.parentAddress # normalizeAddress(last.parentAddress)) =>
        /\ Has(policyCache[last.proc], LastKey)
        /\ policyCache[last.proc][LastKey].policy = last.prior.policy
        /\ policyCache[last.proc][LastKey].parentAddress = last.prior.parentAddress

\* C6 as stated: deleteWalletPolicy by a parent that is not the stored owner
\* (ignoring case), or for an address without a record, returns false and
\* removes nothing; by the owner it returns true and removes the record, and
\* every later getWalletPolicy of the address returns absent until the
\* address is put again.
C6_DeleteAsStated ==
    [][/\ Calls("delete") =>
            LET p == last'.proc
                k == normalizeAddress(last'.walletAddress)
                store == Consulted(p, last'.readOk)
                owner == /\ Has(store, k)
                         /\ store[k].parentAddress = normalizeAddress(last'.parentAddress)
            IN  /\ last'.returned = owner
                /\ ~owner => disk' = disk /\ policyCache'[p] = store
                /\ owner => ~Has(policyCache'[p], k) /\ ~Has(disk', k)
       /\ (Calls("get") /\ ~Has(written, normalizeAddress(last'.walletAddress)))
            => ~last'.found
      ]_vars

\* C6: deleteWalletPolicy by a parent that is not the stored owner (ignoring
\* case), or for an address without a record, returns false and removes
\* nothing; by the owner it returns true and removes the record from the
\* calling process's store, and from the file when the write succeeds (a
\* failed write leaves the file as it was, or cut short and without any
\* record); a later getWalletPolicy returns absent exactly when the store it
\* consults lacks the address.
C6_DeleteContract ==
    [][/\ Calls("delete") =>
            LET p == last'.proc
                k == normalizeAddress(last'.walletAddress)
                store == Consulted(p, last'.readOk)
                owner == /\ Has(store, k)
                         /\ store[k].parentAddress = normalizeAddress(last'.parentAddress)
            IN  /\ last'.returned = owner
                /\ \A q \in Procs \ {p} : policyCache'[q] = policyCache[q]
                /\ ~owner => disk' = disk /\ policyCache'[p] = store
                /\ owner =>
                      /\ DOMAIN policyCache'[p] = (DOMAIN store) \ {k}
                      /\ \A x \in DOMAIN policyCache'[p] : policyCache'[p][x] = store[x]
                      /\ IF last'.wrote THEN disk' = policyCache'[p]
                         ELSE disk' \in {disk, EmptyMap}
       /\ Calls("get") =>
            (last'.found <=>
                Has(Consulted(last'.proc, last'.readOk), normalizeAddress(last'.walletAddress)))
      ]_vars

\* the owner, whose address is stored in lower case and given in upper
\* case, deleted the record and the file no longer holds it
C6_Witness ==
    /\ last.op = "delete"
    /\ last.returned
    /\ last.wrote
    /\ last.parentAddress # last.prior.parentAddress
    /\ ~Has(disk, LastKey)

---------------------------------------------------------------------------
(* C9, C10: the durable file                                               *)

\* C9 as stated: a record stored by a put that has returned is found by
\* getWalletPolicy in a process that starts with an empty cache and shares
\* only the file.
C9_FoundAfterPut ==
    (last.op = "get" /\ last.loaded /\ Has(written, LastKey)) =>
        last.found /\ last.record = written[LastKey]

\* C9: a put whose write succeeds leaves its record in the file when it
\* returns; getWalletPolicy in a process with an empty cache returns the
\* file's entry for the address when the read succeeds, and absent when the
\* file has no entry or the read fails.
C9_DurableRoundTrip ==
    /\ (last.op = "put" /\ last.wrote) =>
          /\ Has(disk, LastKey)
          /\ disk[LastKey] = [walletAddress |-> LastKey,
                              parentAddress |-> normalizeAddress(last.parentAddress),
                              policy |-> last.policy, createdAt |-> now, updatedAt |-> now]
    /\ (last.op = "get" /\ last.loaded) =>
          IF last.readOk /\ Has(disk, LastKey)
          THEN last.found /\ last.record = disk[LastKey]
          ELSE ~last.found

\* process p2, starting with an empty cache, found the record of the latest
\* put, which process p1 holds in its cache
C9_Witness ==
    /\ last.op = "get"
    /\ last.proc = "p2"
    /\ last.loaded
    /\ last.found
    /\ Has(written, LastKey)
    /\ last.record = written[LastKey]
    /\ Has(policyCache["p1"], LastKey)

\* C10 as stated: a record in the durable file stays there through every
\* step of every process until a deleteWalletPolicy by its owner returns true.
C10_AsStated ==
    [][\A k \in DOMAIN disk :
          \/ Has(disk', k)
          \/ /\ Calls("delete")
             /\ last'.returned
             /\ normalizeAddress(last'.walletAddress) = k
      ]_vars

\* C10: a record in the durable file stays there through every step except
\* a successful rewrite of the file by a deleteWalletPolicy of its owner that
\* returns true, or by a put or delete of a process whose store, at that
\* call, does not hold the record, and except a write of a put or delete
\* that fails after it has truncated the file; reads, validations and time
\* never remove it.
C10_DurablePresence ==
    [][\A k \in DOMAIN disk :
          \/ Has(disk', k)
          \/ /\ Calls("put") \/ Calls("delete")
             /\ last'.wrote
             /\ \/ /\ last'.op = "delete"
                   /\ last'.returned
                   /\ normalizeAddress(last'.walletAddress) = k
                \/ ~Has(Consulted(last'.proc, last'.readOk), k)
          \/ /\ Calls("put") \/ (Calls("delete") /\ last'.returned)
             /\ ~last'.wrote
             /\ disk' = EmptyMap
      ]_vars

\* a process with an empty cache read the file and added a second record:
\* the file holds both
C10_Witness ==
    /\ last.op = "put"
    /\ last.loaded
    /\ last.readOk
    /\ ~last.hadRecord
    /\ last.wrote
    /\ Size(disk) = 2

---------------------------------------------------------------------------
(* C11: letter case of the address                                         *)

\* the same character in the other letter case
SwapCaseChar(c) ==
    CASE c = "a" -> "A" [] c = "b" -> "B" [] c = "c" -> "C" [] c = "d" -> "D"
      [] c = "e" -> "E" [] c = "f" -> "F" [] c = "x" -> "X"
      [] c = "A" -> "a" [] c = "B" -> "b" [] c = "C" -> "c" [] c = "D" -> "d"
      [] c = "E" -> "e" [] c = "F" -> "f" [] c = "X" -> "x"
      [] OTHER -> c

\* the address as given, with the case of its digits swapped, and with the
\* case of prefix and digits swapped
CaseVariants(address) ==
    {address,
     [i \in DOMAIN address |->
        IF i >= 3 THEN Run(SwapCaseChar(address[i].ch), address[i].n) ELSE address[i]],
     [i \in DOMAIN address |-> Run(SwapCaseChar(address[i].ch), address[i].n)]}

\* C11: after storeWalletPolicy under one case variant of an address, a lookup
\* in that store under every case variant returns the record just stored;
\* getWalletPolicy and validateTransaction return the same record under every
\* case variant, a repeated lookup returns it again, and neither changes the
\* file nor the content of the store.
C11_CaseInsensitiveLookup ==
    [][/\ Calls("put") =>
            \A v \in CaseVariants(last'.walletAddress) :
                LET got == getWalletPolicy(policyCache'[last'.proc], v)
                IN  /\ got.found
                    /\ got.record.policy = last'.policy
                    /\ got.record = written'[got.record.walletAddress]
       /\ (Calls("get") \/ Calls("validate")) =>
            LET store == Consulted(last'.proc, last'.readOk)
            IN  /\ disk' = disk
                /\ policyCache' = [policyCache EXCEPT ![last'.proc] = store]
                /\ \A v \in CaseVariants(last'.walletAddress) :
                      /\ getWalletPolicy(store, v).found = last'.found
                      /\ getWalletPolicy(store, v).record = last'.record
                      /\ getWalletPolicy(policyCache'[last'.proc], v).record = last'.record
      ]_vars

\* a record stored under the upper-case address was found under the
\* lower-case address
C11_Witness ==
    /\ last.op = "get"
    /\ last.found
    /\ last.walletAddress = Addr("a")
    /\ last.record = written[Addr("a")]
    /\ ~last.loaded

---------------------------------------------------------------------------
(* C12 .. C14, C16: provisioning                                           *)

\* C12: a create-wallet request writes the store only when payment
\* succeeded and the provider returned a well-formed address, and then
\* under that address; every other request leaves the store and the file
\* as they were.
C12_StoreOnlyWellFormed ==
    [][Calls("create") =>
          IF last'.paid /\ MatchesAddressFormat(last'.provided)
          THEN /\ last'.stored
               /\ Has(policyCache'[last'.proc], normalizeAddress(last'.provided))
               /\ DOMAIN policyCache'[last'.proc] \ DOMAIN Consulted(last'.proc, last'.readOk)
                     \subseteq {normalizeAddress(last'.provided)}
          ELSE /\ ~last'.stored
               /\ policyCache' = policyCache
               /\ disk' = disk
      ]_vars

\* the policy blocks contract deployment
BlocksDeploy(policy) == Includes(policy.globalConditions, ActionCond("deploy"))

\* C13: every policy provisioning builds, for every combination of options,
\* contains the condition (action, notEquals, 'deploy'); every record
\* provisioning has stored carries it, and validateTransaction never allows
\* a request of type 'deploy' for a provisioned wallet.
C13_DeployAlwaysBlocked ==
    /\ \A o \in BuilderOptions : BlocksDeploy(buildParaPolicy(o))
    /\ (last.op = "create" /\ last.stored) => BlocksDeploy(last.policy)
    /\ \A k \in DOMAIN disk : BlocksDeploy(disk[k].policy)
    /\ \A p \in Procs : \A k \in DOMAIN policyCache[p] : BlocksDeploy(policyCache[p][k].policy)
    /\ (last.op = "validate" /\ last.tx.transactionType = "deploy") => ~last.allowed

\* a deployment on an allowed chain and within the limit, for a provisioned
\* wallet, is rejected by the blocked-action condition
C13_Witness ==
    /\ last.op = "validate" /\ last.found
    /\ last.record = written[normalizeAddress(last.walletAddress)]
    /\ last.tx.transactionType = "deploy"
    /\ ~last.allowed /\ last.condition = "action_restriction"

\* the request got as far as the payment step: a POST whose body carries a
\* well-formed parent address
ReachedPayment ==
    last.op = "create" /\ last.method = "POST" /\ MatchesAddressFormat(last.parentAddress)

\* C14: with no payment backend configured, verification succeeds exactly
\* when devMode is set; with a backend configured, a missing token fails
\* with 'Payment token required' whatever devMode is; and a request whose
\* payment fails is answered 402, no other request is.
C14_PaymentOutcome ==
    /\ ReachedPayment =>
          /\ ~stripeSecretKey => (last.paid <=> last.devMode)
          /\ (stripeSecretKey /\ last.paymentToken \in {"undefined", "empty"})
                => ~last.paid /\ last.error = "Payment token required"
          /\ (stripeSecretKey /\ last.paymentToken = "string") => last.paid
          /\ ~last.paid => last.status = 402 /\ ~last.success /\ ~last.stored
    /\ (last.op = "create" /\ last.status = 402) => ReachedPayment /\ ~last.paid

\* a backend is configured, devMode is set, no token: the request is refused
C14_Witness ==
    /\ ReachedPayment /\ stripeSecretKey /\ last.devMode
    /\ last.paymentToken = "undefined"
    /\ last.status = 402 /\ last.error = "Payment token required"

\* the provider handed over an address: a non-empty string
ProviderSucceeded == last.provided # NoAddress

---------------------------------------------------------------------------
(* C15, C19, C20: the signing endpoint's responses                         *)

\* the request passes the handler's checks of its fields
WellFormedSign ==
    /\ last.op = "sign" /\ last.method = "POST"
    /\ MatchesAddressFormat(last.walletAddress) /\ last.tx.chainId # ""

\* C15: sign-transaction answers 400 to a missing or malformed address or a
\* missing chain, 404 tagged paraEnforced when the wallet has no policy, 403
\* with allowed = false, rejectedBy = 'para_policy' and a condition code
\* when the request violates the policy, and 200 with allowed = true when
\* it passes every condition.
C15_StatusesAsStated ==
    (last.op = "sign" /\ last.method = "POST") =>
        /\ ~WellFormedSign => last.status = 400
        /\ (WellFormedSign /\ ~last.found) => last.status = 404 /\ last.paraEnforced
        /\ (WellFormedSign /\ last.found /\ Failing(last.policy.globalConditions, last.tx) # {})
              => /\ last.status = 403 /\ ~last.allowed
                 /\ last.rejectedBy = "para_policy" /\ last.condition # ""
        /\ (WellFormedSign /\ last.found /\ Failing(last.policy.globalConditions, last.tx) = {})
              => last.status = 200 /\ last.allowed

\* C19: without PARA_SECRET_KEY the handler's own evaluation gives, for the
\* record it found and the request it got, the verdict and the rejection
\* code that validateTransaction gives for the same record and request.
C19_SameAsValidator ==
    (WellFormedSign /\ last.found /\ ~paraSecretKey) =>
        LET v == validateTransaction(policyCache[last.proc], last.walletAddress, last.tx)
        IN  /\ v.policy = last.policy
            /\ last.allowed = v.allowed
            /\ last.condition = v.condition

---------------------------------------------------------------------------
(* C18: listing by parent                                                  *)

\* the record is the one the call in flight stored, timestamps apart
AsStored(r) ==
    /\ r.walletAddress = normalizeAddress(last'.walletAddress)
    /\ r.parentAddress = normalizeAddress(last'.parentAddress)
    /\ r.policy = last'.policy

\* C18 as stated: right after storeWalletPolicy, listPoliciesByParent with
\* the owning parent in any letter case returns exactly one record, the one
\* stored.
C18_ExactlyOne ==
    [][Calls("put") =>
          \A v \in CaseVariants(last'.parentAddress) :
              LET results == listPoliciesByParent(policyCache'[last'.proc], v)
              IN  Cardinality(results) = 1 /\ \A r \in results : AsStored(r)
      ]_vars

\* C18: right after storeWalletPolicy, listPoliciesByParent with the owning
\* parent in any letter case returns the record stored, once, together with
\* the parent's records for other wallets that the process's store held; and
\* listPoliciesByParent returns exactly the records of the store it consults
\* whose parentAddress is the lowercased argument, changing nothing.
C18_ListByParent ==
    [][/\ Calls("put") =>
            \A v \in CaseVariants(last'.parentAddress) :
                LET results == listPoliciesByParent(policyCache'[last'.proc], v)
                    before == Consulted(last'.proc, last'.readOk)
                    others == {k \in DOMAIN before \ {normalizeAddress(last'.walletAddress)} :
                                  before[k].parentAddress = normalizeAddress(last'.parentAddress)}
                IN  /\ Cardinality({r \in results : AsStored(r)}) = 1
                    /\ \A r \in results : r.parentAddress = normalizeAddress(v)
                    /\ {r \in results : ~AsStored(r)} = {before[k] : k \in others}
                    /\ Cardinality(results) = 1 + Cardinality(others)
       /\ Calls("list") =>
            LET store == Consulted(last'.proc, last'.readOk)
            IN  /\ \A r \in last'.results :
                      /\ r.parentAddress = normalizeAddress(last'.parentAddress)
                      /\ Has(store, r.walletAddress) /\ store[r.walletAddress] = r
                /\ \A k \in DOMAIN store :
                      store[k].parentAddress = normalizeAddress(last'.parentAddress)
                        => store[k] \in last'.results
                /\ disk' = disk
                /\ policyCache' = [policyCache EXCEPT ![last'.proc] = store]
      ]_vars

\* a parent given in upper case gets both of its wallets' records
C18_Witness ==
    /\ last.op = "list" /\ last.parentAddress = Addr("C")
    /\ Cardinality(last.results) = 2
    /\ \A r \in last.results : r = written[r.walletAddress]

---------------------------------------------------------------------------
(* C17: one wallet's record and another wallet's verdict                   *)

\* the verdict, code included, that validateTransaction gives in a store
Verdict(store, walletAddress, tx) ==
    LET v == validateTransaction(store, walletAddress, tx)
    IN  <<v.allowed, v.condition>>

\* the step starts a call that writes the record of one address
WritesRecord == Calls("put") \/ (Calls("delete") /\ last'.returned)

\* C17 as stated: storing, overwriting or deleting the record of one address
\* changes the verdict for no other address, whichever process validates.
C17_NeverChangesOthers ==
    [][WritesRecord =>
          \A q \in Procs :
          \A k \in WalletsRead \ {normalizeAddress(last'.walletAddress)} :
          \A tx \in FlowTransactions :
              Verdict(getPolicyStore(policyCache'[q], disk', TRUE), k, tx)
                = Verdict(getPolicyStore(policyCache[q], disk, TRUE), k, tx)
      ]_vars

\* C17: a transfer of 10 on chain 8453 is denied with 'value_limit' under
\* policy B (maximum 5) and allowed under policy A (maximum 15); and in the
\* store of the process that stores, overwrites or deletes the record of
\* one address, the record and the verdict of every other address stay as
\* they were in the store that call consulted.
C17_Isolation ==
    [][/\ (Calls("put") \/ Calls("delete")) =>
            LET before == Consulted(last'.proc, last'.readOk)
                after == policyCache'[last'.proc]
            IN  \A k \in WalletsRead \ {normalizeAddress(last'.walletAddress)} :
                    /\ Has(after, k) <=> Has(before, k)
                    /\ Has(before, k) => after[k] = before[k]
                    /\ \A tx \in FlowTransactions :
                          Verdict(after, k, tx) = Verdict(before, k, tx)
       /\ (Calls("validate") /\ last'.found /\ last'.tx = TenDollarTransfer) =>
            /\ last'.record.policy = PolicyB
                  => ~last'.allowed /\ last'.condition = "value_limit"
            /\ last'.record.policy = PolicyA
                  => last'.allowed /\ last'.condition = ""
      ]_vars

\* with policy A stored for one address and policy B for the other in the
\* same store, the transfer of 10 is denied for B
C17_Witness ==
    /\ last.op = "validate" /\ last.tx = TenDollarTransfer
    /\ last.walletAddress = Addr("b") /\ last.found /\ last.record.policy = PolicyB
    /\ ~last.allowed /\ last.condition = "value_limit"
    /\ Has(policyCache[last.proc], Addr("a"))
    /\ policyCache[last.proc][Addr("a")].policy = PolicyA

---------------------------------------------------------------------------
(* C21: two writers                                                        *)

\* p and q both read the file with an empty cache before either wrote it,
\* they put different addresses, p wrote first and q's write reached the file
RacedPuts(p, q) ==
    /\ p # q
    /\ pending[p].phase = "saved" /\ pending[q].phase = "saved"
    /\ pending[p].wasEmpty /\ pending[q].wasEmpty
    /\ pending[p].key # pending[q].key
    /\ pending[q].loadedAt < pending[p].savedAt
    /\ pending[p].savedAt < pending[q].savedAt
    /\ pending[q].write = "written"

\* C21: when two processes with empty caches both read the file before
\* either writes it and then put different addresses, the file ends up equal
\* to the cache of the process that wrote last: what that process read, plus
\* its own record.  The record the earlier writer put is not in it.
C21_LastWriterWins ==
    \A p, q \in Procs :
        RacedPuts(p, q) =>
            /\ disk = policyCache[q]
            /\ disk = MapSet(pending[q].seen, pending[q].key, pending[q].record)
            /\ Has(policyCache[p], pending[p].key)
            /\ Has(disk, pending[p].key) =>
                  /\ Has(pending[q].seen, pending[p].key)
                  /\ disk[pending[p].key] = pending[q].seen[pending[p].key]
            /\ pending[q].seen = EmptyMap => DOMAIN disk = {pending[q].key}

\* both writes succeeded, the file held a record before, and it ends up
\* without the earlier writer's record
C21_Witness ==
    \E p, q \in Procs :
        /\ RacedPuts(p, q) /\ pending[p].write = "written"
        /\ pending[q].seen # EmptyMap
        /\ ~Has(disk, pending[p].key) /\ Has(disk, pending[q].key)

---------------------------------------------------------------------------
(* C22: when the file is read                                              *)

\* the step starts a call that only reads the store
Reads == Calls("get") \/ Calls("list") \/ Calls("listAll")

\* what the call in flight returned is what the store holds
AnsweredFrom(store) ==
    CASE last'.op = "get" ->
            /\ last'.found = Has(store, normalizeAddress(last'.walletAddress))
            /\ last'.found => last'.record = store[normalizeAddress(last'.walletAddress)]
      [] last'.op = "list" ->
            last'.results = {store[k] : k \in {x \in DOMAIN store :
                                store[x].parentAddress = normalizeAddress(last'.parentAddress)}}
      [] last'.op = "listAll" ->
            last'.results = {store[k] : k \in DOMAIN store}

\* C22: an operation reads the file exactly when the process's cache is
\* empty as it starts.  With a non-empty cache get, listPoliciesByParent and
\* getAllPolicies answer from the cache and leave it as it is, whatever the
\* file holds; with an empty cache they answer from the file as read, and
\* the cache becomes that.  Put and delete start from the same store.
C22_LazyLoad ==
    [][LET cache == policyCache[last'.proc]
           read == IF last'.readOk THEN disk ELSE EmptyMap
       IN  /\ Reads =>
                /\ cache # EmptyMap => AnsweredFrom(cache) /\ policyCache' = policyCache
                /\ cache = EmptyMap =>
                      /\ AnsweredFrom(read)
                      /\ policyCache' = [policyCache EXCEPT ![last'.proc] = read]
                /\ last'.loaded <=> cache = EmptyMap
           /\ (Calls("put") \/ Calls("delete")) =>
                LET start == IF cache # EmptyMap THEN cache ELSE read
                    key == normalizeAddress(last'.walletAddress)
                IN  /\ last'.hadRecord = Has(start, key)
                    /\ \A k \in (DOMAIN start \cup DOMAIN policyCache'[last'.proc]) \ {key} :
                          /\ Has(start, k) /\ Has(policyCache'[last'.proc], k)
                          /\ policyCache'[last'.proc][k] = start[k]
      ]_vars

\* a record another process wrote to the file is not seen by a process
\* whose cache holds something else
C22_Witness ==
    /\ last.op = "get" /\ ~last.found /\ ~last.loaded
    /\ Has(disk, normalizeAddress(last.walletAddress))
    /\ policyCache[last.proc] # EmptyMap

---------------------------------------------------------------------------
(* C23: failures of the file                                               *)

\* the step starts a call of put, or of a delete that removes a record
Writes == Calls("put") \/ (Calls("delete") /\ last'.returned)

\* the process's store holds what the call in flight asked for
CacheHoldsNewState ==
    LET key == normalizeAddress(last'.walletAddress)
        store == policyCache'[last'.proc]
    IN  IF last'.op = "put"
        THEN Has(store, key) /\ store[key].policy = last'.policy
        ELSE ~Has(store, key)

\* a failed read of a file with records in it gives the operation an empty store
EmptyAnswer ==
    /\ last'.op = "get" => ~last'.found /\ last'.record = NoRecord
    /\ last'.op \in {"list", "listAll"} => last'.results = {}
    /\ last'.op = "validate" => ~last'.allowed /\ last'.condition = "no_policy"
    /\ last'.op = "delete" => ~last'.returned
    /\ last'.op = "put" => DOMAIN policyCache'[last'.proc] = {normalizeAddress(last'.walletAddress)}

\* C23 as stated: a failed write lets put and delete complete with the new
\* state in the cache and the file left unchanged.
C23_FileUnchanged ==
    [][(Writes /\ ~last'.wrote) => CacheHoldsNewState /\ disk' = disk]_vars

\* C23: every store operation completes.  After a failed read the operation
\* works on an empty store: get returns absent, the lists are empty.  After
\* a failed write put and delete have completed with the new state in the
\* cache, and the file is as it was or, cut short, without any readable
\* record.  A get of a key the store lacks returns absent.
C23_FailuresSwallowed ==
    [][/\ (last.op = "idle" /\ last'.op # "idle" /\ last'.loaded /\ ~last'.readOk)
            => EmptyAnswer
       /\ (Writes /\ ~last'.wrote)
            => CacheHoldsNewState /\ disk' \in {disk, EmptyMap}
       /\ (Writes /\ last'.wrote) => disk' = policyCache'[last'.proc]
       /\ (Calls("get") /\ ~Has(Consulted(last'.proc, last'.readOk),
                                 normalizeAddress(last'.walletAddress)))
            => ~last'.found /\ last'.record = NoRecord
      ]_vars

\* a put whose write was refused: the cache has the record, the file keeps
\* its other record and lacks the new one
C23_Witness ==
    /\ last.op = "put" /\ ~last.wrote
    /\ Has(policyCache[last.proc], normalizeAddress(last.walletAddress))
    /\ disk # EmptyMap
    /\ ~Has(disk, normalizeAddress(last.walletAddress))

---------------------------------------------------------------------------
(* C24: the handlers' responses                                            *)

Handled == last.op \in {"sign", "create", "debug", "flow", "simple", "health"}

\* C24: every handler answers every method, OPTIONS included, with a JSON
\* body, and answers 500 with a JSON body whatever is thrown into its
\* outer catch.
C24_AlwaysJson ==
    Handled => /\ last.status # 0 /\ last.json
               /\ last.failure # "" => last.status = 500

---------------------------------------------------------------------------
(* C25: the verdict and the order of the conditions                        *)

\* the lists that hold the same conditions in another order
Reorderings(conditions) ==
    IF Len(conditions) = 0 THEN {conditions}
    ELSE {[i \in 1..Len(conditions) |-> conditions[f[i]]] :
            f \in Permutations(1..Len(conditions))}

\* the store with the validated record's conditions replaced by cs
Reordered(store, cs) ==
    MapSet(store, normalizeAddress(last.walletAddress),
           [last.record EXCEPT !.policy.globalConditions = cs])

\* C25: whether validateTransaction allows a request does not depend on
\* the order of the policy's conditions: the request is allowed exactly
\* when it passes every chain, action and value condition present, several
\* of one kind included, and every reordering of the list gives the same
\* answer.
C25_OrderIndependent ==
    Validated =>
        /\ last.allowed <=> Failing(ValidatedConditions, last.tx) = {}
        /\ \A cs \in Reorderings(ValidatedConditions) :
              validateTransaction(Reordered(policyCache[last.proc], cs),
                                  last.walletAddress, last.tx).allowed = last.allowed

\* a request rejected by the second of two conditions of one kind, the
\* first of which it passes
C25_Witness ==
    /\ Validated /\ ~last.allowed
    /\ Len(ValidatedConditions) = 2
    /\ ValidatedConditions[1].type = ValidatedConditions[2].type
    /\ Failing(ValidatedConditions, last.tx) = {2}

---------------------------------------------------------------------------
(* C26: the shape of the stored map                                        *)

\* every key is a lower-case address, names the record filed under it, and
\* every record's parent is in lower case
WellKeyed(m) ==
    \A k \in DOMAIN m :
        /\ k = normalizeAddress(k)
        /\ m[k].walletAddress = k
        /\ m[k].parentAddress = normalizeAddress(m[k].parentAddress)

\* no two records for one lower-cased address
OnePerAddress(m) ==
    \A k1, k2 \in DOMAIN m : normalizeAddress(k1) = normalizeAddress(k2) => k1 = k2

\* C26: after every put and delete, every process's cache and the durable
\* map hold at most one record per lower-cased child address, every key is
\* in lower case and equals its record's walletAddress, and every
\* parentAddress is in lower case; a put on an address that already has a
\* record, in whatever case it is given, replaces the policy and sets
\* updatedAt to the time of the put, and the map does not grow.
C26_OneRecordPerAddress ==
    [][/\ WellKeyed(disk') /\ OnePerAddress(disk')
       /\ \A p \in Procs : WellKeyed(policyCache'[p]) /\ OnePerAddress(policyCache'[p])
       /\ Calls("put") =>
            LET before == Consulted(last'.proc, last'.readOk)
                after == policyCache'[last'.proc]
                key == normalizeAddress(last'.walletAddress)
            IN  /\ Has(after, key)
                /\ after[key].policy = last'.policy
                /\ after[key].updatedAt = now
                /\ Size(after) = Size(before) + (IF Has(before, key) THEN 0 ELSE 1)
                /\ \A k \in DOMAIN before : k # key => after[k] = before[k]
      ]_vars

\* a put under the upper-case address replaced the policy of the record
\* kept under the lower-case address, at a later time, in the cache and the
\* file
C26_Witness ==
    /\ last.op = "put" /\ last.hadRecord /\ last.wrote
    /\ last.walletAddress = Addr("A")
    /\ last.prior.policy # last.policy
    /\ last.prior.updatedAt < now
    /\ Size(disk) = 1 /\ disk[Addr("a")].policy = last.policy
    /\ disk[Addr("a")].updatedAt = now
    /\ disk[Addr("a")].parentAddress = Addr("c")

---------------------------------------------------------------------------
(* C27: requests without a value, policies without a limit                 *)

\* the positions of the chain and action conditions the request fails
ChainOrActionFailing(conditions, tx) ==
    {i \in DOMAIN conditions :
        \/ /\ conditions[i].type = "chain"
           /\ \A j \in DOMAIN conditions[i].chains : conditions[i].chains[j] # tx.chainId
        \/ /\ conditions[i].type = "action"
           /\ conditions[i].action = tx.transactionType}

HasValueCondition(conditions) == \E i \in DOMAIN conditions : conditions[i].type = "value"

\* C27: a value condition is looked at only when the request carries a
\* value.  A request without valueUsd passes every value condition, a
\* policy without a value condition accepts every valueUsd, and in both
\* cases the chain and action conditions alone decide the verdict and its
\* code.
C27_ValueOnlyWhenPresent ==
    (Validated /\ (~last.tx.hasValueUsd \/ ~HasValueCondition(ValidatedConditions))) =>
        /\ last.allowed <=> ChainOrActionFailing(ValidatedConditions, last.tx) = {}
        /\ last.condition # "value_limit"
        /\ \A v \in 0..(MaxUsd + 1) :
              ~HasValueCondition(ValidatedConditions) =>
                  Verdict(policyCache[last.proc], last.walletAddress,
                          [last.tx EXCEPT !.hasValueUsd = TRUE, !.valueUsd = v])
                    = <<last.allowed, last.condition>>

\* a request without valueUsd was allowed under a policy that has a value
\* condition
C27_Witness ==
    /\ Validated /\ last.allowed
    /\ ~last.tx.hasValueUsd
    /\ HasValueCondition(ValidatedConditions)
    /\ Len(ValidatedConditions) = 2

---------------------------------------------------------------------------
(* C28: what buildParaPolicy emits                                         *)

Built == last.op = "build"

\* neither NaN nor an infinity
IsFinite(a) == a \notin {NaN, Infinity, NegativeInfinity}

ValueConditions(conditions) ==
    {i \in DOMAIN conditions : conditions[i].type = "value"}

\* C28: buildParaPolicy is a function of its options.  allowedChains is
\* ['8453'] when restrictToBase is true and the five-chain set otherwise,
\* the chain condition's value equals allowedChains, and a value condition
\* is emitted exactly when maxUsd is supplied and is a finite number above
\* zero: never for an absent, zero, negative, NaN or infinite maxUsd.
C28_ValueIffFinitePositive ==
    Built =>
        LET conditions == last.policy.globalConditions
            o == last.options
        IN  /\ last.policy = buildParaPolicy(o)
            /\ last.policy.allowedChains =
                  (IF o.restrictToBase THEN <<"8453">>
                   ELSE <<"8453", "1", "137", "42161", "10">>)
            /\ conditions[1].type = "chain"
            /\ conditions[1].chains = last.policy.allowedChains
            /\ ValueConditions(conditions) # {}
                  <=> (o.hasMaxUsd /\ IsFinite(o.maxUsd) /\ o.maxUsd > 0)
            /\ \A i \in ValueConditions(conditions) : conditions[i].num = o.maxUsd

---------------------------------------------------------------------------
(* C29: deleted records                                                    *)

\* the addresses records are kept under
StoredKeys == {normalizeAddress(w) : w \in WalletsWritten}

\* deleteWalletPolicy returned true for the address, or nothing was ever
\* put under it, and the file does not hold it
GoneFromFile(k) == ~Has(written, k) /\ ~Has(disk, k)

\* C29: once deleteWalletPolicy has returned true for an address and the
\* record has left the durable map, the record comes back into the durable
\* map only through a later put that names that address; a put of another
\* address, by a process that still holds the deleted record in its cache,
\* does not restore it.
C29_NoResurrection ==
    [][\A k \in StoredKeys :
          (GoneFromFile(k) /\ Has(disk', k)) =>
              Calls("put") /\ normalizeAddress(last'.walletAddress) = k
      ]_vars

---------------------------------------------------------------------------
(* C30: operations that only read                                          *)

\* the step starts a call that is to leave the records alone
ReadsOnly ==
    \/ Calls("get") \/ Calls("validate") \/ Calls("list") \/ Calls("listAll")
    \/ (Calls("delete") /\ ~last'.returned)

\* C30: getWalletPolicy, validateTransaction, listPoliciesByParent,
\* getAllPolicies and a deleteWalletPolicy that returns false never write
\* the durable map and never add, remove or alter a record: the file and
\* every other process's cache stay as they were, and the caller's cache
\* stays as it was unless it was empty, in which case it becomes what the
\* durable map holds (or stays empty when the read fails).
C30_ReadsChangeNothing ==
    [][ReadsOnly =>
          /\ disk' = disk
          /\ \A q \in Procs \ {last'.proc} : policyCache'[q] = policyCache[q]
          /\ policyCache'[last'.proc] =
                (IF policyCache[last'.proc] # EmptyMap THEN policyCache[last'.proc]
                 ELSE IF last'.readOk THEN disk ELSE EmptyMap)
      ]_vars

\* a delete by a parent who does not own the record returned false after
\* filling the empty cache from the file, which still holds the record
C30_Witness ==
    /\ last.op = "delete" /\ ~last.returned /\ last.hadRecord
    /\ last.loaded /\ last.readOk
    /\ disk # EmptyMap
    /\ policyCache[last.proc] = disk
    /\ Has(disk, normalizeAddress(last.walletAddress))

===========================================================================
